---- MODULE Spec2Model ----
(***************************************************************************)
(* Verification model of the structural identity-resolution and spatial-   *)
(* query engine of pdb-connect-mvs:                                        *)
(*   structure-info.ts : getChainInstancesInAssemblies, chainSurroundings, *)
(*                       getChainInfo, getChainPolymerResidueCounts        *)
(*   model provider    : MolstarModelProvider.getModel                     *)
(*   helpers.ts        : listEntityInstancesInAssembly / ...InModel        *)
(*   data-provider.ts  : PdbeApiClient, siftsMappings,                     *)
(*                       siftsMappingsByEntity, extractDomainMappings      *)
(*   mvs-snapshot-provider.ts : _loadPdbconnectBase                        *)
(* An async function is a sequence of steps, one per stretch of code       *)
(* between two awaits; what it awaits settles in steps of the environment. *)
(* Arrays of the source are 0-based; they are modelled as functions over   *)
(* 0..n-1.  Lists that the source builds with push() are sequences.        *)
(***************************************************************************)
EXTENDS Integers, Sequences, FiniteSets, TLC

VARIABLES
    model,              \* the parsed structure model handed to structure-info.ts
    surr,               \* the last chainSurroundings call: arguments and outcome
    symmetry,           \* ModelSymmetry.Provider.get(model): the assembly descriptors
    chainInstancesInfo, \* what getChainInstancesInAssemblies returned, once called
    instances,          \* the last listEntityInstances... call: arguments and outcome
    entryData,          \* siftsMappings: its local entryData, the merged records of the two responses
    sifts,              \* the siftsMappings / siftsMappingsByEntity call: its position and its result
    chainQuery,         \* the last getChainInfo / getChainPolymerResidueCounts call and its result
    loaded,             \* the model and symmetry data as they were when the model was loaded
    seen,               \* repeated calls: the result of the first call, per function and arguments
    latest,             \* repeated calls: the latest call and its result
    cache,              \* MolstarModelProvider: _cachedEntryId and _cachedModel
    calls,              \* MolstarModelProvider: the getModel calls made so far, in the order they began
    apiCache,           \* PdbeApiClient.cache: relative URL -> promise
    requests,           \* PdbeApiClient: the HTTP requests started so far (the promises of getWithoutCache)
    received,           \* PdbeApiClient: what each get call returned, in call order
    served              \* the PDBe API: relative URL -> the entry's record in the JSON body it serves

surrVars == <<model, surr>>
asmVars == <<symmetry, chainInstancesInfo, instances>>
domVars == <<entryData, sifts>>
chainVars == <<chainQuery>>
repeatVars == <<loaded, seen, latest>>
providerVars == <<cache, calls>>
apiVars == <<apiCache, requests, received, served>>
vars == <<model, surr, symmetry, chainInstancesInfo, instances, entryData, sifts, chainQuery,
          loaded, seen, latest, cache, calls, apiCache, requests, received, served>>

----------------------------------------------------------------------------
(* Generic helpers *)

SetMin(S) == CHOOSE a \in S : \A b \in S : a <= b
MathMin(a, b) == IF b < a THEN b ELSE a
MathMax(a, b) == IF b > a THEN b ELSE a
SeqRange(s) == {s[i] : i \in 1..Len(s)}
NoValue == "undefined"

\* An optional value of the source (T | undefined)
None == [defined |-> FALSE]
Some(v) == [defined |-> TRUE, value |-> v]

\* A JavaScript object used as a dictionary: a function from its keys
EmptyObject == [k \in {} |-> <<>>]
Lookup(obj, key) == IF key \in DOMAIN obj THEN Some(obj[key]) ELSE None

----------------------------------------------------------------------------
(* Bounds of the structure models that are explored *)

MaxAtoms == 3
MaxRadius == 5

\* Atom positions the models are built from.  Squared distances between them
\* include 9 (= 3*3) and 25 (= 5*5), so that the inclusive comparison with the
\* squared radius is exercised on the boundary, and <<3,0,0>> lies inside the
\* bounding box of <<0,0,0>>, <<3,3,0>> while being 3 away from both.
Points == { <<0, 0, 0>>, <<3, 0, 0>>, <<3, 3, 0>>, <<0, 4, 3>> }

\* label_asym_id given to the chain rows, in row order
ChainLabels == <<"A", "B", "C", "D", "E">>
UnknownChain == "Z"

\* An atom of a model under construction: its position and whether it opens a
\* new residue or a new chain (the first atom opens a chain).
Cuts == {"same", "residue", "chain"}
AtomLists(maxAtoms) == UNION { { a \in [1..n -> [pos : Points, cut : Cuts]] : a[1].cut = "chain" } : n \in 1..maxAtoms }

\* The molstar Model built from such a list: atoms of a residue are contiguous,
\* residues of a chain are contiguous (segment offsets + per-atom segment index).
MakeModel(atoms) ==
    LET n == Len(atoms)
        resOfAtom == [i \in 0..(n-1) |-> Cardinality({j \in 1..(i+1) : atoms[j].cut # "same"}) - 1]
        chainOfAtom == [i \in 0..(n-1) |-> Cardinality({j \in 1..(i+1) : atoms[j].cut = "chain"}) - 1]
        nRes == resOfAtom[n-1] + 1
        nChains == chainOfAtom[n-1] + 1
        resOffsets == [r \in 0..nRes |-> IF r = nRes THEN n ELSE SetMin({i \in 0..(n-1) : resOfAtom[i] = r})]
        chainOffsets == [c \in 0..nChains |-> IF c = nChains THEN n ELSE SetMin({i \in 0..(n-1) : chainOfAtom[i] = c})]
        firstResOfChain == [c \in 0..(nChains-1) |-> resOfAtom[chainOffsets[c]]]
        seqId == [r \in 0..(nRes-1) |-> r - firstResOfChain[chainOfAtom[resOffsets[r]]] + 1]
    IN [ atomicHierarchy |->
           [ atoms |-> [rowCount |-> n],
             residues |-> [ rowCount |-> nRes,
                            label_seq_id |-> seqId,
                            auth_seq_id |-> [r \in 0..(nRes-1) |-> seqId[r] + 100],
                            pdbx_PDB_ins_code |-> [r \in 0..(nRes-1) |-> ""] ],
             chains |-> [ rowCount |-> nChains,
                          label_asym_id |-> [c \in 0..(nChains-1) |-> ChainLabels[c+1]] ],
             residueAtomSegments |-> [offsets |-> resOffsets, index |-> resOfAtom],
             chainAtomSegments |-> [offsets |-> chainOffsets, index |-> chainOfAtom] ],
         atomicConformation |->
           [ x |-> [i \in 0..(n-1) |-> atoms[i+1].pos[1]],
             y |-> [i \in 0..(n-1) |-> atoms[i+1].pos[2]],
             z |-> [i \in 0..(n-1) |-> atoms[i+1].pos[3]] ] ]

Models(maxAtoms) == { MakeModel(a) : a \in AtomLists(maxAtoms) }

----------------------------------------------------------------------------
(* structure-info.ts: chainSurroundings *)

findChainIndexOrFirstChain(m, labelChainId) ==
    LET h == m.atomicHierarchy
        hits == {i \in 0..(h.chains.rowCount - 1) : h.chains.label_asym_id[i] = labelChainId}
    IN IF hits = {} THEN 0 ELSE SetMin(hits)

\* Return chain index or -1 if chain not found.
findChainIndexByLabelAsymId(m, labelChainId) ==
    LET h == m.atomicHierarchy
        hits == {i \in 0..(h.chains.rowCount - 1) : h.chains.label_asym_id[i] = labelChainId}
    IN IF hits = {} THEN -1 ELSE SetMin(hits)

\* Bounding box of the atoms fromAtom..toAtom-1, folded from the first atom on.
RECURSIVE targetBoundingBox(_, _, _, _)
targetBoundingBox(coords, bbox, iTgtAtom, toAtom) ==
    IF iTgtAtom >= toAtom THEN bbox
    ELSE targetBoundingBox(coords,
            [ xmin |-> MathMin(bbox.xmin, coords.x[iTgtAtom]),
              xmax |-> MathMax(bbox.xmax, coords.x[iTgtAtom]),
              ymin |-> MathMin(bbox.ymin, coords.y[iTgtAtom]),
              ymax |-> MathMax(bbox.ymax, coords.y[iTgtAtom]),
              zmin |-> MathMin(bbox.zmin, coords.z[iTgtAtom]),
              zmax |-> MathMax(bbox.zmax, coords.z[iTgtAtom]) ],
            iTgtAtom + 1, toAtom)

extendBoundingBoxShrunkMax(bbox, radius) ==
    [ xmin |-> bbox.xmin - radius, xmax |-> bbox.xmax - radius,
      ymin |-> bbox.ymin - radius, ymax |-> bbox.ymax - radius,
      zmin |-> bbox.zmin - radius, zmax |-> bbox.zmax - radius ]

\* Extend bounding box by radius
extendBoundingBox(bbox, radius) ==
    [ xmin |-> bbox.xmin - radius, xmax |-> bbox.xmax + radius,
      ymin |-> bbox.ymin - radius, ymax |-> bbox.ymax + radius,
      zmin |-> bbox.zmin - radius, zmax |-> bbox.zmax + radius ]

\* Pre-filter by bounding box: FALSE when one of the six tests rejects the atom
insideBoundingBox(bbox, x, y, z) ==
    ~ ( x < bbox.xmin \/ x > bbox.xmax
     \/ y < bbox.ymin \/ y > bbox.ymax
     \/ z < bbox.zmin \/ z > bbox.zmax )

isTargetAtomOffByOne(iAtom, fromAtom, toAtom) == iAtom > fromAtom /\ iAtom < toAtom

\* Don't include target in surroundings
isTargetAtom(iAtom, fromAtom, toAtom) == iAtom >= fromAtom /\ iAtom < toAtom

sqDist(coords, x, y, z, iTgtAtom) ==
    (x - coords.x[iTgtAtom]) * (x - coords.x[iTgtAtom])
  + (y - coords.y[iTgtAtom]) * (y - coords.y[iTgtAtom])
  + (z - coords.z[iTgtAtom]) * (z - coords.z[iTgtAtom])

\* The distance filter accepting only atoms exactly at the radius
RECURSIVE nearAnyTargetAtomAtRadiusOnly(_, _, _, _, _, _, _)
nearAnyTargetAtomAtRadiusOnly(coords, x, y, z, iTgtAtom, toAtom, sqRadius) ==
    IF iTgtAtom >= toAtom THEN FALSE
    ELSE IF sqDist(coords, x, y, z, iTgtAtom) = sqRadius THEN TRUE
    ELSE nearAnyTargetAtomAtRadiusOnly(coords, x, y, z, iTgtAtom + 1, toAtom, sqRadius)

\* Filter by distance to any target atom: the inner loop breaks on the first
\* target atom within the radius.
RECURSIVE nearAnyTargetAtom(_, _, _, _, _, _, _)
nearAnyTargetAtom(coords, x, y, z, iTgtAtom, toAtom, sqRadius) ==
    IF iTgtAtom >= toAtom THEN FALSE
    ELSE IF sqDist(coords, x, y, z, iTgtAtom) <= sqRadius THEN TRUE
    ELSE nearAnyTargetAtom(coords, x, y, z, iTgtAtom + 1, toAtom, sqRadius)

\* outResidues.push(iRes) for every accepted atom
pushResidueOfEveryAtom(outResidues, iRes) == Append(outResidues, iRes)

\* outResidues.push(iRes) unless iRes is the most recently pushed residue
pushResidue(outResidues, iRes) ==
    IF Len(outResidues) > 0 /\ outResidues[Len(outResidues)] = iRes
    THEN outResidues
    ELSE Append(outResidues, iRes)

\* The loop over all atoms of the model
RECURSIVE filterModelAtoms(_, _, _, _, _, _, _)
filterModelAtoms(m, bbox, sqRadius, fromAtom, toAtom, iAtom, outResidues) ==
    LET h == m.atomicHierarchy
        coords == m.atomicConformation
    IN IF iAtom >= h.atoms.rowCount THEN outResidues
       ELSE LET x == coords.x[iAtom]
                y == coords.y[iAtom]
                z == coords.z[iAtom]
                accepted == /\ ~ isTargetAtom(iAtom, fromAtom, toAtom)
                            /\ insideBoundingBox(bbox, x, y, z)
                            /\ nearAnyTargetAtom(coords, x, y, z, fromAtom, toAtom, sqRadius)
            IN filterModelAtoms(m, bbox, sqRadius, fromAtom, toAtom, iAtom + 1,
                                IF accepted
                                THEN pushResidue(outResidues, h.residueAtomSegments.index[iAtom])
                                ELSE outResidues)

\* The residue locator pushed to `out` for residue iRes
residueLocator(m, iRes) ==
    LET h == m.atomicHierarchy
        iAtom == h.residueAtomSegments.offsets[iRes]
        iChain == h.chainAtomSegments.index[iAtom]
    IN [ label_asym_id |-> h.chains.label_asym_id[iChain],
         label_seq_id |-> h.residues.label_seq_id[iRes],
         auth_seq_id |-> h.residues.auth_seq_id[iRes],
         pdbx_PDB_ins_code |-> h.residues.pdbx_PDB_ins_code[iRes] ]

\* Select surroundings of a chain in the model, as whole residues.
\* The outcome is either a thrown Error or the returned list `out`.
chainSurroundings(m, labelChainId, radius) ==
    LET h == m.atomicHierarchy
        coords == m.atomicConformation
        iChain == findChainIndexByLabelAsymId(m, labelChainId)
    IN IF iChain < 0
       THEN [threw |-> TRUE, error |-> "Chain not found", chain |-> labelChainId]
       ELSE LET fromAtom == h.chainAtomSegments.offsets[iChain]
                toAtom == h.chainAtomSegments.offsets[iChain + 1]
                bbox0 == [ xmin |-> coords.x[fromAtom], xmax |-> coords.x[fromAtom],
                           ymin |-> coords.y[fromAtom], ymax |-> coords.y[fromAtom],
                           zmin |-> coords.z[fromAtom], zmax |-> coords.z[fromAtom] ]
                bbox == extendBoundingBox(targetBoundingBox(coords, bbox0, fromAtom + 1, toAtom), radius)
                outResidues == filterModelAtoms(m, bbox, radius * radius, fromAtom, toAtom, 0, <<>>)
            IN [threw |-> FALSE, out |-> [i \in 1..Len(outResidues) |-> residueLocator(m, outResidues[i])]]

----------------------------------------------------------------------------
(* structure-info.ts: getChainInstancesInAssemblies *)

MaxGroups == 2

\* Ordered operator lists and optional chain lists an operator group may carry
OperatorLists == { <<"1">>, <<"1", "2">>, <<"2", "1">>, <<"2", "3">> }
AsymIdOptions == { None, Some(<<"A">>), Some(<<"B", "A">>), Some(<<"A", "B", "C">>) }
OperatorGroups ==
    { [asymIds |-> a, operators |-> [i \in 1..Len(ops) |-> [instanceId |-> ops[i]]]] :
        a \in AsymIdOptions, ops \in OperatorLists }
GroupLists(maxGroups) == UNION { [1..n -> OperatorGroups] : n \in 0..maxGroups }

\* symmetry is undefined, or lists no assembly, or one assembly "1", or the
\* assemblies "1" and "2" of one operator group each.
Symmetries(maxGroups) ==
    {None, Some([assemblies |-> <<>>])}
    \cup { Some([assemblies |-> << [id |-> "1", operatorGroups |-> gs] >>]) : gs \in GroupLists(maxGroups) }
    \cup { Some([assemblies |-> << [id |-> "1", operatorGroups |-> <<g1>>],
                                   [id |-> "2", operatorGroups |-> <<g2>>] >>]) :
             g1 \in OperatorGroups, g2 \in OperatorGroups }

\* helpers.unique as the specification describes it: deduplicated, first-seen
\* order preserved
RECURSIVE unique(_)
unique(list) ==
    IF list = <<>> THEN <<>>
    ELSE LET front == unique(SubSeq(list, 1, Len(list) - 1))
             last == list[Len(list)]
         IN IF last \in SeqRange(front) THEN front ELSE Append(front, last)

pushToListOverwriting(obj, key, value) ==
    [k \in DOMAIN obj \cup {key} |-> IF k = key THEN <<value>> ELSE obj[k]]

\* (obj[key] ??= []).push(value)
pushToList(obj, key, value) ==
    IF key \in DOMAIN obj
    THEN [obj EXCEPT ![key] = Append(@, value)]
    ELSE [k \in DOMAIN obj \cup {key} |-> IF k = key THEN <<value>> ELSE obj[k]]

\* for (const labelAsymId of group.asymIds) { ... }
RECURSIVE addChainInstances(_, _, _, _)
addChainInstances(acc, instanceId, asymIds, i) ==
    IF i > Len(asymIds) THEN acc
    ELSE addChainInstances(
            [acc EXCEPT !.operatorsPerChain = pushToList(@, asymIds[i], instanceId),
                        !.chainsPerOperator = pushToList(@, instanceId, asymIds[i])],
            instanceId, asymIds, i + 1)

addOperatorOnlyWithChains(acc, group, op) ==
    IF group.asymIds.defined
    THEN addChainInstances([acc EXCEPT !.allOperators = Append(@, op.instanceId)],
                           op.instanceId, group.asymIds.value, 1)
    ELSE acc

\* Body of the loop over group.operators
addOperator(acc, group, op) ==
    LET pushed == [acc EXCEPT !.allOperators = Append(@, op.instanceId)]
    IN IF group.asymIds.defined
       THEN addChainInstances(pushed, op.instanceId, group.asymIds.value, 1)
       ELSE pushed

\* for (const op of group.operators) { ... }
RECURSIVE addGroupOperators(_, _, _)
addGroupOperators(acc, group, i) ==
    IF i > Len(group.operators) THEN acc
    ELSE addGroupOperators(addOperator(acc, group, group.operators[i]), group, i + 1)

\* for (const group of assembly.operatorGroups) { ... }
RECURSIVE addGroups(_, _, _)
addGroups(acc, operatorGroups, i) ==
    IF i > Len(operatorGroups) THEN acc
    ELSE addGroups(addGroupOperators(acc, operatorGroups[i], 1), operatorGroups, i + 1)

\* The entry of an assembly with the chain lists of chainsPerOperator deduplicated
assemblyChainInstancesUniqueChains(assembly) ==
    LET acc == addGroups([allOperators |-> <<>>, operatorsPerChain |-> EmptyObject,
                          chainsPerOperator |-> EmptyObject],
                         assembly.operatorGroups, 1)
    IN [ allOperators |-> unique(acc.allOperators),
         operatorsPerChain |-> acc.operatorsPerChain,
         chainsPerOperator |-> [id \in DOMAIN acc.chainsPerOperator |-> unique(acc.chainsPerOperator[id])] ]

\* The entry out[assembly.id] built for one assembly
assemblyChainInstances(assembly) ==
    LET acc == addGroups([allOperators |-> <<>>, operatorsPerChain |-> EmptyObject,
                          chainsPerOperator |-> EmptyObject],
                         assembly.operatorGroups, 1)
    IN [ allOperators |-> unique(acc.allOperators),
         operatorsPerChain |-> acc.operatorsPerChain,
         chainsPerOperator |-> acc.chainsPerOperator ]

\* for (const assembly of assemblies) { ...; out[assembly.id] = {...} }
RECURSIVE addAssemblies(_, _, _)
addAssemblies(out, assemblies, i) ==
    IF i > Len(assemblies) THEN out
    ELSE addAssemblies(
            [id \in DOMAIN out \cup {assemblies[i].id} |->
                IF id = assemblies[i].id THEN assemblyChainInstances(assemblies[i]) ELSE out[id]],
            assemblies, i + 1)

\* Get information about symmetry operators used in all available assemblies
\* and which operators are applied to which chains.  `sym` stands for
\* ModelSymmetry.Provider.get(model).
getChainInstancesInAssemblies(sym) ==
    LET assemblies == IF sym.defined THEN sym.value.assemblies ELSE <<>>
    IN addAssemblies(EmptyObject, assemblies, 1)

----------------------------------------------------------------------------
(* helpers.ts: listEntityInstancesInAssembly, listEntityInstancesInModel *)

\* entity.chains of the entities that are looked up
EntityChainLists == { <<"A">>, <<"B", "A">>, <<"C", "B">>, <<"D">> }
Entities == { [chains |-> cs] : cs \in EntityChainLists }
AssemblyIds == {"1", "2", "3"}

Threw(what) == [threw |-> TRUE, error |-> what]
Returned(list) == [threw |-> FALSE, out |-> list]

\* for (const labelAsymId of chainsPerOperator[instanceId]) { if (entityChains.has(...)) out.push(...) }
RECURSIVE pushEntityChains(_, _, _, _, _)
pushEntityChains(out, entityChains, instanceId, chains, i) ==
    IF i > Len(chains) THEN out
    ELSE pushEntityChains(
            IF chains[i] \in entityChains
            THEN Append(out, [labelAsymId |-> chains[i], instanceId |-> instanceId])
            ELSE out,
            entityChains, instanceId, chains, i + 1)

\* for (const instanceId of chainInstancesInfo.allOperators) { ... }: iterating
\* chainsPerOperator[instanceId] throws a TypeError when the entry is undefined.
RECURSIVE walkOperators(_, _, _, _)
walkOperators(out, entityChains, info, i) ==
    IF i > Len(info.allOperators) THEN Returned(out)
    ELSE LET instanceId == info.allOperators[i]
             chains == Lookup(info.chainsPerOperator, instanceId)
         IN IF ~ chains.defined THEN Threw("TypeError: undefined is not iterable")
            ELSE walkOperators(pushEntityChains(out, entityChains, instanceId, chains.value, 1),
                               entityChains, info, i + 1)

\* The chain-first walk: entity.chains in order, operatorsPerChain[chain] within
RECURSIVE walkChainsFirst(_, _, _, _)
walkChainsFirst(out, chains, info, i) ==
    IF i > Len(chains) THEN out
    ELSE LET ops == IF chains[i] \in DOMAIN info.operatorsPerChain
                    THEN info.operatorsPerChain[chains[i]] ELSE <<>>
         IN walkChainsFirst(out \o [k \in 1..Len(ops) |-> [labelAsymId |-> chains[i], instanceId |-> ops[k]]],
                            chains, info, i + 1)

listEntityInstancesChainFirst(entity, info) ==
    IF ~ info.defined THEN Threw("TypeError: cannot read properties of undefined")
    ELSE Returned(walkChainsFirst(<<>>, entity.chains, info.value, 1))

\* `info` is chainInstancesInfo[assemblyId], undefined when the id is no key
listEntityInstancesInAssembly(entity, info) ==
    IF ~ info.defined THEN Threw("TypeError: cannot read properties of undefined")
    ELSE walkOperators(<<>>, SeqRange(entity.chains), info.value, 1)

listEntityInstancesInModel(entity) ==
    [i \in 1..Len(entity.chains) |-> [labelAsymId |-> entity.chains[i], instanceId |-> NoValue]]

\* mvs-snapshot-list-provider.ts: instances in the assembly, or, when there
\* are none, the chains of the deposited model
listInstancesWithFallback(entity, info) ==
    LET inAssembly == listEntityInstancesInAssembly(entity, info)
    IN IF inAssembly.threw THEN inAssembly
       ELSE IF Len(inAssembly.out) = 0 THEN Returned(listEntityInstancesInModel(entity))
       ELSE inAssembly

----------------------------------------------------------------------------
(* Strings whose characters matter (domain ids are concatenated and compared) *)
(* are sequences of one-character strings.                                   *)

DecimalDigits == <<"0", "1", "2", "3", "4", "5", "6", "7", "8", "9">>
UpperCaseLetters == <<"A", "B", "C", "D", "E", "F", "G", "H", "I", "J", "K", "L", "M",
                      "N", "O", "P", "Q", "R", "S", "T", "U", "V", "W", "X", "Y", "Z">>
LowerCaseLetters == <<"a", "b", "c", "d", "e", "f", "g", "h", "i", "j", "k", "l", "m",
                      "n", "o", "p", "q", "r", "s", "t", "u", "v", "w", "x", "y", "z">>
IndexIn(list, x) == CHOOSE i \in 1..Len(list) : list[i] = x

\* UTF-16 code unit of a character
CodeUnit(c) ==
    IF c \in SeqRange(DecimalDigits) THEN 47 + IndexIn(DecimalDigits, c)
    ELSE IF c \in SeqRange(UpperCaseLetters) THEN 64 + IndexIn(UpperCaseLetters, c)
    ELSE IF c = "_" THEN 95
    ELSE 96 + IndexIn(LowerCaseLetters, c)

\* a < b on strings: by code units, a proper prefix being smaller
StringLess(a, b) ==
    LET n == MathMin(Len(a), Len(b))
        diffs == {i \in 1..n : a[i] # b[i]}
    IN IF diffs = {} THEN Len(a) < Len(b)
       ELSE CodeUnit(a[SetMin(diffs)]) < CodeUnit(b[SetMin(diffs)])

\* String(n), `${n}` for a number n >= 0
RECURSIVE NumberToString(_)
NumberToString(n) ==
    IF n < 10 THEN <<DecimalDigits[n + 1]>>
    ELSE NumberToString(n \div 10) \o <<DecimalDigits[(n % 10) + 1]>>

----------------------------------------------------------------------------
(* data-provider.ts: extractDomainMappings, siftsMappings, sortDomainsByEntity *)

MaxMappings == 3
MaxFamilyMappings == 2

\* Flat mapping records of the API.  A record carries a native domain id, or
\* only a SCOP id, or neither; it lies on author chain "A" (label chain "A",
\* entity 1) or on author chain "A_2" (label chain "B", entity 2).
DomainIdOptions ==
    { [domain |-> None, scop_id |-> None],
      [domain |-> None, scop_id |-> Some(<<"s", "1">>)],
      [domain |-> Some(<<"d", "1">>), scop_id |-> Some(<<"s", "1">>)] }
MappingChains ==
    { [entity_id |-> 1, chain_id |-> <<"A">>, struct_asym_id |-> <<"A">>],
      [entity_id |-> 2, chain_id |-> <<"A", "_", "2">>, struct_asym_id |-> <<"B">>] }
MappingRanges ==
    { [start |-> Some([residue_number |-> 10]), end |-> Some([residue_number |-> 50])],
      [start |-> Some([residue_number |-> 50]), end |-> Some([residue_number |-> 10])],
      [start |-> None, end |-> Some([residue_number |-> 10])] }
MakeMapping(id, chain, range) ==
    [ entity_id |-> chain.entity_id, chain_id |-> chain.chain_id, struct_asym_id |-> chain.struct_asym_id,
      start |-> range.start, end |-> range.end, domain |-> id.domain, scop_id |-> id.scop_id ]
Mappings == { MakeMapping(id, chain, range) : id \in DomainIdOptions, chain \in MappingChains, range \in MappingRanges }
\* The records of the longest lists: every id option and chain, one range
IdMappings ==
    { MakeMapping(id, chain, range) :
        id \in DomainIdOptions,
        chain \in MappingChains,
        range \in {[start |-> Some([residue_number |-> 10]), end |-> Some([residue_number |-> 50])]} }
\* The records used where several families are combined
FewMappings ==
    { MakeMapping(id, chain, range) :
        id \in {[domain |-> None, scop_id |-> None], [domain |-> Some(<<"d", "1">>), scop_id |-> Some(<<"s", "1">>)]},
        chain \in MappingChains,
        range \in {[start |-> Some([residue_number |-> 10]), end |-> Some([residue_number |-> 50])]} }
MappingLists(records, maxLen) == UNION { [1..n -> records] : n \in 0..maxLen }

SourceCATH == <<"C", "A", "T", "H">>
SourcePfam == <<"P", "f", "a", "m">>
FamilyF == <<"F">>
FamilyG == <<"G">>
FamilyData(name, mappings) == [identifier |-> name, mappings |-> mappings]

\* Payloads: one source with one family of up to MaxMappings records of one
\* range, or of up to MaxFamilyMappings records of any range; or two families,
\* in one source or in two, of up to MaxFamilyMappings records each.
EntryDataSet(maxMappings, maxFamilyMappings) ==
    { (SourceCATH :> (FamilyF :> FamilyData("family F", ms))) :
        ms \in MappingLists(IdMappings, maxMappings) \cup MappingLists(Mappings, maxFamilyMappings) }
    \cup { (SourceCATH :> ((FamilyF :> FamilyData("family F", ms1)) @@ (FamilyG :> FamilyData("family G", ms2)))) :
             ms1 \in MappingLists(FewMappings, maxFamilyMappings), ms2 \in MappingLists(FewMappings, maxFamilyMappings) }
    \cup { (SourceCATH :> (FamilyF :> FamilyData("family F", ms1))) @@ (SourcePfam :> (FamilyF :> FamilyData("family F", ms2))) :
             ms1 \in MappingLists(FewMappings, maxFamilyMappings), ms2 \in MappingLists(FewMappings, maxFamilyMappings) }

\* One counter shared by all author chains
getAdHocDomainIdSharedCounter(domainCount, family, chain) ==
    LET num == (IF <<>> \in DOMAIN domainCount THEN domainCount[<<>>] ELSE 0) + 1
    IN [ id |-> IF num = 1 THEN family \o <<"_">> \o chain
                ELSE family \o <<"_">> \o chain \o <<"_">> \o NumberToString(num),
         domainCount |-> [c \in DOMAIN domainCount \cup {<<>>} |-> IF c = <<>> THEN num ELSE domainCount[c]] ]

\* getAdHocDomainId(chain): the id and the updated domainCount
getAdHocDomainId(domainCount, family, chain) ==
    LET num == (IF chain \in DOMAIN domainCount THEN domainCount[chain] ELSE 0) + 1
    IN [ id |-> IF num = 1 THEN family \o <<"_">> \o chain
                ELSE family \o <<"_">> \o chain \o <<"_">> \o NumberToString(num),
         domainCount |-> [c \in DOMAIN domainCount \cup {chain} |-> IF c = chain THEN num ELSE domainCount[c]] ]

\* mapping.start?.residue_number
residueNumber(position) == IF position.defined THEN Some(position.value.residue_number) ELSE None

chunkSegmentOffByOne(existingDomain) ==
    IF existingDomain.defined THEN Len(existingDomain.value.chunks) ELSE 1

\* segment: existingDomain ? existingDomain.chunks.length + 1 : 1
chunkSegment(existingDomain) ==
    IF existingDomain.defined THEN Len(existingDomain.value.chunks) + 1 ELSE 1

normalizeChunkRangeNever(chunk) == chunk

\* if (start !== undefined && end !== undefined && start > end) swap them
normalizeChunkRange(chunk) ==
    IF /\ chunk.startResidue.defined /\ chunk.endResidue.defined
       /\ chunk.startResidue.value > chunk.endResidue.value
    THEN [chunk EXCEPT !.startResidue = chunk.endResidue, !.endResidue = chunk.startResidue]
    ELSE chunk

\* Index of the record with this id in `result` (kept in insertion order), 0 if none
domainIndex(result, domainId) ==
    IF \E i \in 1..Len(result) : result[i].id = domainId
    THEN CHOOSE i \in 1..Len(result) : result[i].id = domainId
    ELSE 0

\* The loop body with `existingDomain.chunks = [chunk]` in place of the push
processMappingReplacingChunks(st, mapping, source, family, familyName) ==
    LET adHoc == getAdHocDomainId(st.domainCount, family, mapping.chain_id)
        needsAdHoc == ~ mapping.domain.defined /\ ~ mapping.scop_id.defined
        domainId == IF mapping.domain.defined THEN mapping.domain.value
                    ELSE IF mapping.scop_id.defined THEN mapping.scop_id.value
                    ELSE adHoc.id
        iExisting == domainIndex(st.result, domainId)
        existingDomain == IF iExisting > 0 THEN Some(st.result[iExisting]) ELSE None
        chunk == normalizeChunkRange(
                    [ entityId |-> NumberToString(mapping.entity_id),
                      chainId |-> mapping.struct_asym_id,
                      authChainId |-> mapping.chain_id,
                      startResidue |-> residueNumber(mapping.start),
                      endResidue |-> residueNumber(mapping.end),
                      segment |-> chunkSegment(existingDomain) ])
    IN [ result |-> IF existingDomain.defined
                    THEN [st.result EXCEPT ![iExisting].chunks = <<chunk>>]
                    ELSE Append(st.result, [ id |-> domainId, source |-> source, family |-> family,
                                            familyName |-> familyName, chunks |-> <<chunk>> ]),
         domainCount |-> IF needsAdHoc THEN adHoc.domainCount ELSE st.domainCount ]

\* Body of the loop over mappings; st = [result, domainCount]
processMapping(st, mapping, source, family, familyName) ==
    LET adHoc == getAdHocDomainId(st.domainCount, family, mapping.chain_id)
        needsAdHoc == ~ mapping.domain.defined /\ ~ mapping.scop_id.defined
        domainId == IF mapping.domain.defined THEN mapping.domain.value
                    ELSE IF mapping.scop_id.defined THEN mapping.scop_id.value
                    ELSE adHoc.id
        iExisting == domainIndex(st.result, domainId)
        existingDomain == IF iExisting > 0 THEN Some(st.result[iExisting]) ELSE None
        chunk == normalizeChunkRange(
                    [ entityId |-> NumberToString(mapping.entity_id),
                      chainId |-> mapping.struct_asym_id,
                      authChainId |-> mapping.chain_id,
                      startResidue |-> residueNumber(mapping.start),
                      endResidue |-> residueNumber(mapping.end),
                      segment |-> chunkSegment(existingDomain) ])
    IN [ result |-> IF existingDomain.defined
                    THEN [st.result EXCEPT ![iExisting].chunks = Append(@, chunk)]
                    ELSE Append(st.result, [ id |-> domainId, source |-> source, family |-> family,
                                            familyName |-> familyName, chunks |-> <<chunk>> ]),
         domainCount |-> IF needsAdHoc THEN adHoc.domainCount ELSE st.domainCount ]

RECURSIVE processMappings(_, _, _, _, _, _)
processMappings(st, mappings, i, source, family, familyName) ==
    IF i > Len(mappings) THEN st
    ELSE processMappings(processMapping(st, mappings[i], source, family, familyName),
                         mappings, i + 1, source, family, familyName)

\* The comparator with its arguments exchanged
compareDomainsDescending(a, b) == IF StringLess(b.id, a.id) THEN -1 ELSE 1

\* (a, b) => a.id < b.id ? -1 : 1
compareDomains(a, b) == IF StringLess(a.id, b.id) THEN -1 ELSE 1

\* Array.prototype.sort with compareDomains, as an insertion sort
RECURSIVE insertDomain(_, _, _)
insertDomain(sorted, d, i) ==
    IF i > Len(sorted) THEN Append(sorted, d)
    ELSE IF compareDomains(d, sorted[i]) < 0
         THEN SubSeq(sorted, 1, i - 1) \o <<d>> \o SubSeq(sorted, i, Len(sorted))
         ELSE insertDomain(sorted, d, i + 1)
RECURSIVE sortDomains(_)
sortDomains(list) ==
    IF list = <<>> THEN <<>>
    ELSE insertDomain(sortDomains(SubSeq(list, 1, Len(list) - 1)), list[Len(list)], 1)

\* The extraction begun with a counter that an earlier extraction left behind
extractDomainMappingsWithUsedCounter(mappings, source, family, familyName) ==
    sortDomains(processMappings([result |-> <<>>, domainCount |-> (<<"A">> :> 2)],
                                mappings, 1, source, family, familyName).result)

\* Helper function to convert a domain mapping from PDBeAPI format to DomainRecords
extractDomainMappings(mappings, source, family, familyName) ==
    sortDomains(processMappings([result |-> <<>>, domainCount |-> EmptyObject],
                                mappings, 1, source, family, familyName).result)

\* siftsMappings, given the merged entryData of the two API responses
siftsMappings(data) ==
    [ source \in DOMAIN data |->
        [ family \in DOMAIN data[source] |->
            extractDomainMappings(data[source][family].mappings, source, family,
                                  data[source][family].identifier) ] ]

domainEntityIdOfLastChunk(domain) == domain.chunks[Len(domain.chunks)].entityId

\* const entityId = domain.chunks[0].entityId
domainEntityId(domain) == domain.chunks[1].entityId

ObjectGet(obj, key) == IF key \in DOMAIN obj THEN obj[key] ELSE EmptyObject
ObjectPut(obj, key, value) == [k \in DOMAIN obj \cup {key} |-> IF k = key THEN value ELSE obj[k]]

\* (((result[source] ??= {})[family] ??= {})[entityId] ??= []).push(domain)
pushDomain(result, source, family, domain) ==
    LET bySource == ObjectGet(result, source)
        byFamily == ObjectGet(bySource, family)
    IN ObjectPut(result, source,
                 ObjectPut(bySource, family, pushToList(byFamily, domainEntityId(domain), domain)))

RECURSIVE pushFamilyDomains(_, _, _, _, _)
pushFamilyDomains(result, source, family, familyDomains, i) ==
    IF i > Len(familyDomains) THEN result
    ELSE pushFamilyDomains(pushDomain(result, source, family, familyDomains[i]),
                           source, family, familyDomains, i + 1)

\* The loops over Object.entries(domains) and Object.entries(sourceDomains);
\* `todo` is the set of <<source, family>> still to visit (the order of the
\* visits does not change the object that is built).
RECURSIVE pushAllDomains(_, _, _)
pushAllDomains(result, domains, todo) ==
    IF todo = {} THEN result
    ELSE LET sf == CHOOSE x \in todo : TRUE
         IN pushAllDomains(pushFamilyDomains(result, sf[1], sf[2], domains[sf[1]][sf[2]], 1),
                           domains, todo \ {sf})

\* Reorganize domains from source-family to source-family-entity
sortDomainsByEntity(domains) ==
    pushAllDomains(EmptyObject, domains,
                   UNION { {<<source, family>> : family \in DOMAIN domains[source]} : source \in DOMAIN domains })

siftsMappingsByEntity(data) == sortDomainsByEntity(siftsMappings(data))

\* { ...entryDataProtein, ...entryDataNucleic }
spreadObjects(a, b) == [k \in DOMAIN a \cup DOMAIN b |-> IF k \in DOMAIN b THEN b[k] ELSE a[k]]

\* jsonProtein?.[pdbId] ?? {}
entryDataOrEmpty(entry) == IF entry.defined THEN entry.value ELSE EmptyObject

MappingsUrl == "mappings/1tqn"
NucleicMappingsUrl == "nucleic_mappings/1tqn"
SourceRfam == <<"R", "f", "a", "m">>

\* What the API serves for the two URLs: protein mappings alone (the nucleic
\* URL answering without a record of the entry), or a few protein mappings with
\* nucleic mappings under a source of their own or under the source of the
\* protein mappings
ServedMappings(maxMappings, maxFamilyMappings) ==
    { (MappingsUrl :> data) : data \in EntryDataSet(maxMappings, maxFamilyMappings) }
    \cup { (MappingsUrl :> (SourceCATH :> (FamilyF :> FamilyData("family F", ms1))))
             @@ (NucleicMappingsUrl :> (source :> (FamilyG :> FamilyData("family G", ms2)))) :
             ms1 \in MappingLists(FewMappings, 1), ms2 \in MappingLists(FewMappings, 1),
             source \in {SourceRfam, SourceCATH} }

\* The call: `pc` is where siftsMappings stands (at the await of line 164 or of
\* line 165, returned or thrown), `outer` where siftsMappingsByEntity stands
\* at its await of siftsMappings (line 184), `awaiting` the promise awaited,
\* `jsonProtein` the request whose body line 164 received, `mappings` what
\* siftsMappings returned and `result` what the call returned.
NoSifts == [fn |-> NoValue, pc |-> "idle", outer |-> "none", awaiting |-> 0, jsonProtein |-> 0,
            mappings |-> EmptyObject, result |-> EmptyObject]

----------------------------------------------------------------------------
(* structure-info.ts: getChainInfo, getChainPolymerResidueCounts *)

MaxChainAtoms == 3

\* Rows of the chain table: label_asym_id, auth_asym_id, label_entity_id.  A
\* label id may occur in several rows; author chain "X" is of entity "1" and
\* author chain "Y" of entity "2".
ChainRows ==
    { [label_asym_id |-> label, auth_asym_id |-> of[1], label_entity_id |-> of[2]] :
        label \in {"A", "B"}, of \in {<<"X", "1">>, <<"Y", "2">>} }
EntityIds == <<"1", "2">>
EntityTypes == {"polymer", "water"}
\* Atoms of the chain models: only the residue and chain structure matters
ChainAtomLists(maxAtoms) ==
    UNION { { a \in [1..n -> [pos : {<<0, 0, 0>>}, cut : Cuts]] : a[1].cut = "chain" } : n \in 1..maxAtoms }

\* The model of MakeModel(atoms) with the given chain rows and with the entity
\* table (model.entities) giving a type to every entity
MakeChainModel(atoms, rows, types) ==
    LET m == MakeModel(atoms)
        nChains == m.atomicHierarchy.chains.rowCount
        chains == [ rowCount |-> nChains,
                    label_asym_id |-> [c \in 0..(nChains-1) |-> rows[c+1].label_asym_id],
                    auth_asym_id |-> [c \in 0..(nChains-1) |-> rows[c+1].auth_asym_id],
                    label_entity_id |-> [c \in 0..(nChains-1) |-> rows[c+1].label_entity_id] ]
    IN [ atomicHierarchy |-> [m.atomicHierarchy EXCEPT !.chains = chains],
         atomicConformation |-> m.atomicConformation,
         entities |-> [ data |-> [ id |-> [e \in 0..(Len(EntityIds)-1) |-> EntityIds[e+1]],
                                   type |-> [e \in 0..(Len(EntityIds)-1) |-> types[EntityIds[e+1]]] ] ] ]

ChainModels(maxAtoms) ==
    UNION { { MakeChainModel(a, rows, types) :
                rows \in [1..MakeModel(a).atomicHierarchy.chains.rowCount -> ChainRows],
                types \in [SeqRange(EntityIds) -> EntityTypes] } :
            a \in ChainAtomLists(maxAtoms) }

\* obj[key] = value, whatever obj[key] was
assignEntry(obj, key, value) == [k \in DOMAIN obj \cup {key} |-> IF k = key THEN value ELSE obj[k]]

\* obj[key] = value where the source has ??=
assignOverwriting(obj, key, value) == assignEntry(obj, key, value)

\* obj[key] ??= value
assignIfNullish(obj, key, value) == IF key \in DOMAIN obj THEN obj ELSE assignEntry(obj, key, value)

\* The loop of getChainInfo over the chain rows from row iChain on
RECURSIVE addChainInfo(_, _, _)
addChainInfo(result, chains, iChain) ==
    IF iChain >= chains.rowCount THEN result
    ELSE addChainInfo(
            assignIfNullish(result, chains.label_asym_id[iChain],
                            [ authChainId |-> chains.auth_asym_id[iChain],
                              entityId |-> chains.label_entity_id[iChain] ]),
            chains, iChain + 1)

\* Return basic info about the chains in the model, mapped by label_asym_id
getChainInfo(m) == addChainInfo(EmptyObject, m.atomicHierarchy.chains, 0)

\* entities.getEntityIndex(entityId): the row of the entity table, -1 if none
getEntityIndex(entities, entityId) ==
    LET rows == {e \in DOMAIN entities.data.id : entities.data.id[e] = entityId}
    IN IF rows = {} THEN -1 ELSE SetMin(rows)

\* entities.data.type.value(row)
entityTypeValue(entities, row) ==
    IF row \in DOMAIN entities.data.type THEN entities.data.type[row] ELSE NoValue

chainResidueCountWithoutLast(h, i) ==
    LET fromAtom == h.chainAtomSegments.offsets[i]
        toAtom == h.chainAtomSegments.offsets[i + 1]
    IN h.residueAtomSegments.index[toAtom - 1] - h.residueAtomSegments.index[fromAtom]

\* nRes of chain row i: toRes - fromRes
chainResidueCount(h, i) ==
    LET fromAtom == h.chainAtomSegments.offsets[i]
        toAtom == h.chainAtomSegments.offsets[i + 1]
        fromRes == h.residueAtomSegments.index[fromAtom]
        toRes == h.residueAtomSegments.index[toAtom - 1] + 1
    IN toRes - fromRes

\* The loop of getChainPolymerResidueCounts over the chain rows from row i on
RECURSIVE addChainSizes(_, _, _)
addChainSizes(chainSizes, m, i) ==
    LET h == m.atomicHierarchy
    IN IF i >= h.chains.rowCount THEN chainSizes
       ELSE LET entityId == h.chains.label_entity_id[i]
                entityType == entityTypeValue(m.entities, getEntityIndex(m.entities, entityId))
            IN addChainSizes(
                  IF entityType # "polymer" THEN chainSizes
                  ELSE assignEntry(chainSizes, h.chains.label_asym_id[i], chainResidueCount(h, i)),
                  m, i + 1)

getChainPolymerResidueCounts(m) == addChainSizes(EmptyObject, m, 0)

NoChainQuery == [fn |-> NoValue, result |-> EmptyObject]

----------------------------------------------------------------------------
(* structure-info.ts: structurePolymerResidueCount, getChainCountsInAssembly *)

\* String.prototype.toLowerCase on the one-character assembly ids in use
toLowerCase(id) ==
    IF id \in SeqRange(UpperCaseLetters) THEN LowerCaseLetters[IndexIn(UpperCaseLetters, id)] ELSE id

\* Models with a chain table of distinct label ids: chain row c is labelled
\* ChainLabels[c]; odd rows belong to entity "1", even rows to entity "2"
CountModels(maxAtoms) ==
    UNION { { MakeChainModel(a,
                             [c \in 1..MakeModel(a).atomicHierarchy.chains.rowCount |->
                                 [ label_asym_id |-> ChainLabels[c], auth_asym_id |-> "X",
                                   label_entity_id |-> EntityIds[2 - (c % 2)] ]],
                             types) :
                types \in [SeqRange(EntityIds) -> EntityTypes] } :
            a \in ChainAtomLists(maxAtoms) }

\* Symmetry data with one assembly "A" of up to maxGroups operator groups; a
\* group names no chain set, or chain "A", or chains "B" and "A"
CountGroups ==
    { [asymIds |-> a, operators |-> [i \in 1..Len(ops) |-> [instanceId |-> ops[i]]]] :
        a \in {None, Some(<<"A">>), Some(<<"B", "A">>)}, ops \in {<<"1">>, <<"1", "2">>} }
CountSymmetries(maxGroups) ==
    {None} \cup
    { Some([assemblies |-> << [id |-> "A", operatorGroups |-> gs] >>]) :
        gs \in UNION { [1..n -> CountGroups] : n \in 0..maxGroups } }
\* assemblyId arguments: undefined, the assembly, the assembly in lower case,
\* an assembly that does not exist
CountAssemblyIds == {None, Some("A"), Some("a"), Some("B")}

\* symmetry?.assemblies.find(ass => ass.id.toLowerCase() === assemblyId?.toLowerCase())
findAssembly(sym, assemblyId) ==
    LET assemblies == IF sym.defined THEN sym.value.assemblies ELSE <<>>
        hits == {i \in 1..Len(assemblies) : toLowerCase(assemblies[i].id) = toLowerCase(assemblyId)}
    IN IF hits = {} THEN None ELSE Some(assemblies[SetMin(hits)])

\* chainCounts[chainId] = n
addChainCountOverwriting(chainCounts, chainId, n) == assignEntry(chainCounts, chainId, n)

\* chainCounts[chainId] ??= 0; chainCounts[chainId] += n
addChainCount(chainCounts, chainId, n) ==
    assignEntry(chainCounts, chainId, (IF chainId \in DOMAIN chainCounts THEN chainCounts[chainId] ELSE 0) + n)

\* for (const chainId of group.asymIds) { ... }
RECURSIVE addGroupChainCounts(_, _, _)
addGroupChainCounts(chainCounts, group, j) ==
    IF j > Len(group.asymIds.value) THEN chainCounts
    ELSE addGroupChainCounts(addChainCount(chainCounts, group.asymIds.value[j], Len(group.operators)),
                             group, j + 1)

\* for (const group of assembly.operatorGroups) { if (!group.asymIds) continue; ... }
RECURSIVE addAssemblyChainCounts(_, _, _)
addAssemblyChainCounts(chainCounts, groups, g) ==
    IF g > Len(groups) THEN chainCounts
    ELSE addAssemblyChainCounts(
            IF ~ groups[g].asymIds.defined THEN chainCounts
            ELSE addGroupChainCounts(chainCounts, groups[g], 1),
            groups, g + 1)

\* Processing deposited model: chainCounts[chainId] = 1 for every chain row
RECURSIVE addModelChainCounts(_, _, _)
addModelChainCounts(chainCounts, chains, i) ==
    IF i >= chains.rowCount THEN chainCounts
    ELSE addModelChainCounts(assignEntry(chainCounts, chains.label_asym_id[i], 1), chains, i + 1)

getChainCountsInAssembly(m, sym, assemblyId) ==
    IF ~ assemblyId.defined THEN addModelChainCounts(EmptyObject, m.atomicHierarchy.chains, 0)
    ELSE LET assembly == findAssembly(sym, assemblyId.value)
         IN IF ~ assembly.defined THEN EmptyObject
            ELSE addAssemblyChainCounts(EmptyObject, assembly.value.operatorGroups, 1)

\* for (const chainId in chainCounts) total += (chainCounts[chainId] ?? 0) * (chainSizes[chainId] ?? 0)
RECURSIVE addChainTotals(_, _, _, _)
addChainTotals(total, chainCounts, chainSizes, todo) ==
    IF todo = {} THEN total
    ELSE LET chainId == CHOOSE c \in todo : TRUE
         IN addChainTotals(total + chainCounts[chainId]
                                     * (IF chainId \in DOMAIN chainSizes THEN chainSizes[chainId] ELSE 0),
                           chainCounts, chainSizes, todo \ {chainId})

\* Return total number of polymer residues in an assembly or deposited model.
\* `sym` is ModelSymmetry.Provider.get(model).
structurePolymerResidueCount(m, sym, assemblyId) ==
    LET chainSizes == getChainPolymerResidueCounts(m)
        chainCounts == getChainCountsInAssembly(m, sym, assemblyId)
    IN addChainTotals(0, chainCounts, chainSizes, DOMAIN chainCounts)

----------------------------------------------------------------------------
(* structure-info.ts: what the three queries leave behind in their inputs *)

MaxRepeatAtoms == 2

RepeatPoints == { <<0, 0, 0>>, <<3, 0, 0>> }
RepeatRadii == {0, 3}
RepeatAtomLists(maxAtoms) ==
    UNION { { a \in [1..n -> [pos : RepeatPoints, cut : Cuts]] : a[1].cut = "chain" } : n \in 1..maxAtoms }
\* Models with coordinates and a full chain table: chain row c is labelled
\* ChainLabels[c], all chains belong to the polymer entity "1"
RepeatModels(maxAtoms) ==
    { MakeChainModel(a,
                     [c \in 1..MakeModel(a).atomicHierarchy.chains.rowCount |->
                         [label_asym_id |-> ChainLabels[c], auth_asym_id |-> "X", label_entity_id |-> "1"]],
                     [e \in SeqRange(EntityIds) |-> "polymer"]) :
        a \in RepeatAtomLists(maxAtoms) }
RepeatSymmetries ==
    {None} \cup
    { Some([assemblies |-> << [id |-> "1", operatorGroups |-> <<g>>] >>]) :
        g \in { [asymIds |-> a, operators |-> [i \in 1..Len(ops) |-> [instanceId |-> ops[i]]]] :
                  a \in {None, Some(<<"B", "A">>)}, ops \in {<<"1">>, <<"2", "1">>} } }

\* getChainInfo reads model.atomicHierarchy.chains and assigns to `result` only
modelAfterGetChainInfo(m) == m

\* getChainInstancesInAssemblies reads the symmetry and assigns to `out`,
\* `allOperators`, `operatorsPerChain`, `chainsPerOperator` only
symmetryAfterGetChainInstancesInAssemblies(sym) == sym

\* chainSurroundings reads h and coords and assigns to `bbox`, `outResidues`,
\* `out` only; bbox is built from copied numbers
modelAfterChainSurroundings(m, labelChainId, radius) == m

NoRepeatCall == [key |-> [fn |-> NoValue, labelChainId |-> NoValue, radius |-> 0], result |-> NoValue]

----------------------------------------------------------------------------
(* MolstarModelProvider: getModel with its one-model cache *)

MaxCalls == 4

ProviderEntryIds == {"1tqn", "1hda"}

\* private _cachedEntryId?: string; private _cachedModel?: Model;
EmptyCache == [entryId |-> None, model |-> None]

\* The Model object that the fetch begun by the call-th getModel call parsed
\* for the entry: every fetch yields an object of its own
FetchedModel(entryId, call) == [entryId |-> entryId, fetchedBy |-> call]

\* A hit decided by the presence of a cached model alone
isCacheHitForAnyEntry(c, entryId) == c.model.defined

\* entryId === this._cachedEntryId && this._cachedModel
isCacheHit(c, entryId) ==
    /\ c.entryId.defined /\ c.entryId.value = entryId
    /\ c.model.defined

\* Only this._cachedModel = model, the entry id being written when none is cached
cacheAfterFetchKeepingEntryId(c, entryId, m) ==
    [entryId |-> IF c.entryId.defined THEN c.entryId ELSE Some(entryId), model |-> Some(m)]

\* this._cachedEntryId = entryId; this._cachedModel = model;
cacheAfterFetch(c, entryId, m) == [entryId |-> Some(entryId), model |-> Some(m)]

\* The slot after a failure with the entry id recorded before the await
cacheAfterFailureRecordingEntryId(c, entryId) == [entryId |-> Some(entryId), model |-> c.model]

\* `await this._getModel(entryId)` threw: the two assignments are not reached
cacheAfterFailure(c, entryId) == c

callInProgress(call) == call.pc = "awaiting"
anyCallInProgress(cs) == \E i \in 1..Len(cs) : callInProgress(cs[i])

\* getModel(entryId) up to its return or its await, on slot c and the calls
\* cs made so far: the calls after it.  Each call record keeps whether the
\* call went to _getModel (`fetched`) and whether it ran while another call was
\* awaiting (`overlapped`), where its _getModel stands (`inner`: "none" when
\* not called, "fetch" at the await of line 60, "read" at the awaits of lines
\* 64-72, "done") and what it threw (`error`).
getModel(c, cs, entryId) ==
    LET busy == anyCallInProgress(cs)
        marked == [i \in 1..Len(cs) |->
                     IF callInProgress(cs[i]) THEN [cs[i] EXCEPT !.overlapped = TRUE] ELSE cs[i]]
    IN IF isCacheHit(c, entryId)
       THEN Append(marked, [ entryId |-> entryId, pc |-> "returned", fetched |-> FALSE,
                             result |-> Some(c.model.value), overlapped |-> busy,
                             inner |-> "none", error |-> NoValue ])
       ELSE Append(marked, [ entryId |-> entryId, pc |-> "awaiting", fetched |-> TRUE,
                             result |-> None, overlapped |-> busy,
                             inner |-> "fetch", error |-> NoValue ])


----------------------------------------------------------------------------
(* data-provider.ts: PdbeApiClient *)

MaxGets == 4

SummaryUrl == "pdb/entry/summary/1tqn"
MoleculesUrl == "pdb/entry/molecules/1tqn"
ModifiedResiduesUrl == "pdb/entry/modified_AA_or_NA/1tqn"
\* the URLs asked for where the client is explored on its own
RelativeUrls == {SummaryUrl, MoleculesUrl}
\* response.status of the fetch
ResponseStatuses == {200, 404, 500}

\* how the body of a response ends: it parses as JSON, it does not (an empty
\* body included), or the stream breaks off
ResponseBodies == {"json", "notJson", "terminated"}

\* getWithoutCache once `await fetch(url)` is over (lines 26-28): undefined for
\* 404, an Error for a response that is not ok, else it awaits response.json()
\* and its promise stays pending
getWithoutCacheOutcome(status) ==
    IF status = 404 THEN [state |-> "resolved", value |-> NoValue, pc |-> "done"]
    ELSE IF ~ (status \in 200..299) THEN [state |-> "rejected", value |-> "Error", pc |-> "done"]
    ELSE [state |-> "pending", value |-> NoValue, pc |-> "json"]

\* getWithoutCache once `await response.json()` is over (line 28): the parsed
\* JSON, or the SyntaxError or TypeError that response.json() rejected with
responseJsonOutcome(body) ==
    IF body = "json" THEN [state |-> "resolved", value |-> "json", pc |-> "done"]
    ELSE IF body = "notJson" THEN [state |-> "rejected", value |-> "SyntaxError", pc |-> "done"]
    ELSE [state |-> "rejected", value |-> "TypeError", pc |-> "done"]

\* the cache after a get that forgot to store the promise
cacheAfterGetNotStored(c, relativeUrl, promise) == c

\* this.cache[relativeUrl] ??= promise, for a promise that was just created
cacheAfterGet(c, relativeUrl, promise) == assignEntry(c, relativeUrl, promise)

\* get(relativeUrl) on a client with cache c and requests reqs: the promise it
\* returns (with the state it was found in, "none" when it was just created),
\* and the cache and the requests after the call
get(c, reqs, relativeUrl) ==
    LET hit == Lookup(c, relativeUrl)
    IN IF hit.defined
       THEN [ promise |-> hit.value, found |-> reqs[hit.value].state, apiCache |-> c, requests |-> reqs ]
       ELSE [ promise |-> Len(reqs) + 1, found |-> "none",
              apiCache |-> cacheAfterGet(c, relativeUrl, Len(reqs) + 1),
              requests |-> Append(reqs, [relativeUrl |-> relativeUrl, state |-> "pending",
                                         value |-> NoValue, pc |-> "fetch"]) ]

\* what the get call is recorded as in `received`
receivedFrom(relativeUrl, g) == [relativeUrl |-> relativeUrl, promise |-> g.promise, found |-> g.found]

settled(request) == request.state # "pending"

\* json?.[pdbId] of a resolved request: undefined for a body that is undefined
\* (status 404) or has no record of the entry
entryOfJson(request, bodies) ==
    IF request.value = NoValue THEN None ELSE Lookup(bodies, request.relativeUrl)

----------------------------------------------------------------------------
(* The surroundings query as a state machine: a model is loaded, then     *)
(* chainSurroundings is called on it with any chain id and radius.         *)

NoCall == [called |-> FALSE, labelChainId |-> NoValue, radius |-> 0,
           result |-> [threw |-> FALSE, out |-> <<>>]]

modelChainLabels(m) ==
    {m.atomicHierarchy.chains.label_asym_id[c] : c \in 0..(m.atomicHierarchy.chains.rowCount - 1)}

NoInstances == [fn |-> NoValue, entity |-> [chains |-> <<>>], assemblyId |-> NoValue,
                result |-> Returned(<<>>)]

\* The components are explored one at a time; the others stay idle.
IdleModel == MakeModel(<<[pos |-> <<0, 0, 0>>, cut |-> "chain"]>>)
surrIdle == model = IdleModel /\ surr = NoCall
asmIdle == symmetry = None /\ chainInstancesInfo = None /\ instances = NoInstances
domIdle == entryData = EmptyObject /\ sifts = NoSifts
chainIdle == chainQuery = NoChainQuery
repeatIdle == loaded = None /\ seen = EmptyObject /\ latest = NoRepeatCall
providerIdle == cache = EmptyCache /\ calls = <<>>
apiIdle == apiCache = EmptyObject /\ requests = <<>> /\ received = <<>> /\ served = EmptyObject

Init ==
    /\ model \in Models(MaxAtoms)
    /\ surr = NoCall
    /\ asmIdle
    /\ domIdle
    /\ chainIdle
    /\ repeatIdle
    /\ providerIdle
    /\ apiIdle

CallChainSurroundings(labelChainId, radius) ==
    /\ surr' = [ called |-> TRUE, labelChainId |-> labelChainId, radius |-> radius,
                 result |-> chainSurroundings(model, labelChainId, radius) ]
    /\ UNCHANGED <<model, asmVars, domVars, chainVars, repeatVars, providerVars, apiVars>>

Next ==
    \E labelChainId \in modelChainLabels(model) \cup {UnknownChain}, radius \in 0..MaxRadius :
        CallChainSurroundings(labelChainId, radius)

Spec == Init /\ [][Next]_vars

----------------------------------------------------------------------------
(* The assembly index and the entity-instance resolver as a state machine: *)
(* the index is derived once from the model's symmetry, then instances of  *)
(* entities are listed from it.                                            *)

InitAssembly ==
    /\ symmetry \in Symmetries(MaxGroups)
    /\ chainInstancesInfo = None
    /\ instances = NoInstances
    /\ surrIdle
    /\ domIdle
    /\ chainIdle
    /\ repeatIdle
    /\ providerIdle
    /\ apiIdle

CallGetChainInstancesInAssemblies ==
    /\ chainInstancesInfo' = Some(getChainInstancesInAssemblies(symmetry))
    /\ UNCHANGED <<symmetry, instances, surrVars, domVars, chainVars, repeatVars, providerVars, apiVars>>

CallListEntityInstancesInAssembly(entity, assemblyId) ==
    /\ chainInstancesInfo.defined
    /\ instances' = [ fn |-> "listEntityInstancesInAssembly", entity |-> entity, assemblyId |-> assemblyId,
                      result |-> listEntityInstancesInAssembly(entity, Lookup(chainInstancesInfo.value, assemblyId)) ]
    /\ UNCHANGED <<symmetry, chainInstancesInfo, surrVars, domVars, chainVars, repeatVars, providerVars, apiVars>>

CallListEntityInstancesInModel(entity) ==
    /\ instances' = [ fn |-> "listEntityInstancesInModel", entity |-> entity, assemblyId |-> NoValue,
                      result |-> Returned(listEntityInstancesInModel(entity)) ]
    /\ UNCHANGED <<symmetry, chainInstancesInfo, surrVars, domVars, chainVars, repeatVars, providerVars, apiVars>>

CallListInstancesWithFallback(entity, assemblyId) ==
    /\ chainInstancesInfo.defined
    /\ instances' = [ fn |-> "listInstancesWithFallback", entity |-> entity, assemblyId |-> assemblyId,
                      result |-> listInstancesWithFallback(entity, Lookup(chainInstancesInfo.value, assemblyId)) ]
    /\ UNCHANGED <<symmetry, chainInstancesInfo, surrVars, domVars, chainVars, repeatVars, providerVars, apiVars>>

NextAssembly ==
    \/ CallGetChainInstancesInAssemblies
    \/ \E entity \in Entities, assemblyId \in AssemblyIds :
            CallListEntityInstancesInAssembly(entity, assemblyId)
    \/ \E entity \in Entities : CallListEntityInstancesInModel(entity)
    \/ \E entity \in Entities, assemblyId \in AssemblyIds :
            CallListInstancesWithFallback(entity, assemblyId)

SpecAssembly == InitAssembly /\ [][NextAssembly]_vars

----------------------------------------------------------------------------
(* The model provider as a state machine: getModel calls begin at any time;  *)
(* a call that misses the cache awaits _getModel, which later resolves with  *)
(* the parsed model or rejects; the code after the await then runs at once.  *)

InitProvider ==
    /\ cache = EmptyCache
    /\ calls = <<>>
    /\ apiIdle
    /\ surrIdle
    /\ asmIdle
    /\ domIdle
    /\ chainIdle
    /\ repeatIdle

\* a getModel call begins
BeginGetModel(entryId) ==
    /\ Len(calls) < MaxCalls
    /\ calls' = getModel(cache, calls, entryId)
    /\ UNCHANGED <<cache, surrVars, asmVars, domVars, chainVars, repeatVars, apiVars>>

\* `await fetch(url)` of _getModel resolves (line 60): a response that is ok
\* is read on, any other makes _getModel throw an Error and getModel reject
RespondGetModel(i, ok) ==
    /\ callInProgress(calls[i])
    /\ calls[i].inner = "fetch"
    /\ IF ok
       THEN /\ calls' = [calls EXCEPT ![i].inner = "read"]
            /\ UNCHANGED cache
       ELSE /\ cache' = cacheAfterFailure(cache, calls[i].entryId)
            /\ calls' = [calls EXCEPT ![i].pc = "threw", ![i].inner = "done", ![i].error = "Error"]
    /\ UNCHANGED <<surrVars, asmVars, domVars, chainVars, repeatVars, apiVars>>

\* _getModel resolved (line 73): the slot is written and the model returned
ResolveGetModel(i) ==
    /\ callInProgress(calls[i])
    /\ calls[i].inner = "read"
    /\ LET m == FetchedModel(calls[i].entryId, i)
       IN /\ cache' = cacheAfterFetch(cache, calls[i].entryId, m)
          /\ calls' = [calls EXCEPT ![i].pc = "returned", ![i].inner = "done", ![i].result = Some(m)]
    /\ UNCHANGED <<surrVars, asmVars, domVars, chainVars, repeatVars, apiVars>>

\* what an await of _getModel can reject with: fetch itself with a TypeError;
\* behind it the body with a TypeError, the parser with the Error of line 68
getModelErrors(inner) == IF inner = "fetch" THEN {"TypeError"} ELSE {"TypeError", "Error"}

\* an await of _getModel rejects, or the parser reports an error: getModel rejects
RejectGetModel(i, error) ==
    /\ callInProgress(calls[i])
    /\ error \in getModelErrors(calls[i].inner)
    /\ cache' = cacheAfterFailure(cache, calls[i].entryId)
    /\ calls' = [calls EXCEPT ![i].pc = "threw", ![i].inner = "done", ![i].error = error]
    /\ UNCHANGED <<surrVars, asmVars, domVars, chainVars, repeatVars, apiVars>>

NextProvider ==
    \/ \E entryId \in ProviderEntryIds : BeginGetModel(entryId)
    \/ \E i \in 1..Len(calls), ok \in BOOLEAN : RespondGetModel(i, ok)
    \/ \E i \in 1..Len(calls) : ResolveGetModel(i)
    \/ \E i \in 1..Len(calls), error \in {"TypeError", "Error"} : RejectGetModel(i, error)

SpecProvider == InitProvider /\ [][NextProvider]_vars

----------------------------------------------------------------------------
(* PdbeApiClient as a state machine.  A promise is named by the position of *)
(* its request in `requests`; get runs to completion (it has no await), the *)
(* response of a running request arrives in a later step and its body ends  *)
(* in a step after that.                                                    *)

InitApi ==
    /\ apiIdle
    /\ surrIdle
    /\ asmIdle
    /\ domIdle
    /\ chainIdle
    /\ repeatIdle
    /\ providerIdle

\* get(relativeUrl): return this.cache[relativeUrl] ??= this.getWithoutCache(relativeUrl)
Get(relativeUrl) ==
    /\ Len(received) < MaxGets
    /\ LET g == get(apiCache, requests, relativeUrl)
       IN /\ apiCache' = g.apiCache
          /\ requests' = g.requests
          /\ received' = Append(received, receivedFrom(relativeUrl, g))
    /\ UNCHANGED <<served, surrVars, asmVars, domVars, chainVars, repeatVars, providerVars>>

\* `await fetch(url)` of request i resolves with a response of the given
\* status: getWithoutCache returns, throws, or goes on to read the body
Respond(i, status) ==
    /\ requests[i].pc = "fetch"
    /\ requests' = [requests EXCEPT ![i] =
                        [relativeUrl |-> @.relativeUrl] @@ getWithoutCacheOutcome(status)]
    /\ UNCHANGED <<apiCache, received, served, surrVars, asmVars, domVars, chainVars, repeatVars, providerVars>>

\* `await response.json()` of request i is over: the body has ended
ReadBody(i, body) ==
    /\ requests[i].pc = "json"
    /\ requests' = [requests EXCEPT ![i] =
                        [relativeUrl |-> @.relativeUrl] @@ responseJsonOutcome(body)]
    /\ UNCHANGED <<apiCache, received, served, surrVars, asmVars, domVars, chainVars, repeatVars, providerVars>>

\* fetch itself fails (no response): the promise of request i is rejected
FetchFails(i) ==
    /\ requests[i].pc = "fetch"
    /\ requests' = [requests EXCEPT ![i] =
                        [relativeUrl |-> @.relativeUrl, state |-> "rejected", value |-> "TypeError",
                         pc |-> "done"]]
    /\ UNCHANGED <<apiCache, received, served, surrVars, asmVars, domVars, chainVars, repeatVars, providerVars>>

NextApi ==
    \/ \E relativeUrl \in RelativeUrls : Get(relativeUrl)
    \/ \E i \in 1..Len(requests), status \in ResponseStatuses : Respond(i, status)
    \/ \E i \in 1..Len(requests), body \in ResponseBodies : ReadBody(i, body)
    \/ \E i \in 1..Len(requests) : FetchFails(i)

SpecApi == InitApi /\ [][NextApi]_vars

----------------------------------------------------------------------------
(* The domain-mapping reconciler as a state machine.  siftsMappings is async: *)
(* it runs up to the await of the protein mappings, resumes when they are in  *)
(* and asks for the nucleic mappings, and resumes again to build its result;  *)
(* siftsMappingsByEntity awaits siftsMappings and resumes in a later turn.    *)
(* The responses of the API arrive in steps of their own.                     *)

InitDomains ==
    /\ served \in ServedMappings(MaxMappings, MaxFamilyMappings)
    /\ apiCache = EmptyObject
    /\ requests = <<>>
    /\ received = <<>>
    /\ domIdle
    /\ surrIdle
    /\ asmIdle
    /\ chainIdle
    /\ repeatIdle
    /\ providerIdle

siftsInProgress ==
    \/ sifts.pc \in {"awaitProtein", "awaitNucleic"}
    \/ sifts.outer = "awaiting"

\* the call up to `await this.get(`mappings/${pdbId}`)` (line 164).  Calls are
\* followed one after the other, as long as the two gets of a call fit in MaxGets.
beginSiftsMappings(fn, outer) ==
    /\ ~ siftsInProgress
    /\ Len(received) + 2 <= MaxGets
    /\ LET g == get(apiCache, requests, MappingsUrl)
       IN /\ apiCache' = g.apiCache
          /\ requests' = g.requests
          /\ received' = Append(received, receivedFrom(MappingsUrl, g))
          /\ sifts' = [NoSifts EXCEPT !.fn = fn, !.pc = "awaitProtein", !.outer = outer,
                                      !.awaiting = g.promise]
    /\ entryData' = EmptyObject
    /\ UNCHANGED <<served, surrVars, asmVars, chainVars, repeatVars, providerVars>>

CallSiftsMappings == beginSiftsMappings("siftsMappings", "none")

\* `await this.siftsMappings(pdbId)` (line 184): siftsMappings runs up to its
\* first await, then siftsMappingsByEntity awaits its promise
CallSiftsMappingsByEntity == beginSiftsMappings("siftsMappingsByEntity", "awaiting")

\* line 164 resumes with jsonProtein, or throws what the promise was rejected
\* with; line 165 asks for the nucleic mappings
ResumeWithProteinMappings ==
    /\ sifts.pc = "awaitProtein"
    /\ settled(requests[sifts.awaiting])
    /\ IF requests[sifts.awaiting].state = "rejected"
       THEN /\ sifts' = [sifts EXCEPT !.pc = "threw"]
            /\ UNCHANGED <<apiCache, requests, received>>
       ELSE LET g == get(apiCache, requests, NucleicMappingsUrl)
            IN /\ apiCache' = g.apiCache
               /\ requests' = g.requests
               /\ received' = Append(received, receivedFrom(NucleicMappingsUrl, g))
               /\ sifts' = [sifts EXCEPT !.pc = "awaitNucleic", !.jsonProtein = sifts.awaiting,
                                         !.awaiting = g.promise]
    /\ UNCHANGED <<entryData, served, surrVars, asmVars, chainVars, repeatVars, providerVars>>

\* line 165 resumes with jsonNucleic, or throws; lines 166-181 merge the two
\* records of the entry and extract the domains of every source and family
ResumeWithNucleicMappings ==
    /\ sifts.pc = "awaitNucleic"
    /\ settled(requests[sifts.awaiting])
    /\ IF requests[sifts.awaiting].state = "rejected"
       THEN /\ sifts' = [sifts EXCEPT !.pc = "threw"]
            /\ UNCHANGED entryData
       ELSE LET entryDataProtein == entryDataOrEmpty(entryOfJson(requests[sifts.jsonProtein], served))
                entryDataNucleic == entryDataOrEmpty(entryOfJson(requests[sifts.awaiting], served))
                merged == spreadObjects(entryDataProtein, entryDataNucleic)
            IN /\ entryData' = merged
               /\ sifts' = [sifts EXCEPT !.pc = "returned", !.mappings = siftsMappings(merged),
                                         !.result = IF sifts.outer = "none" THEN siftsMappings(merged)
                                                    ELSE @]
    /\ UNCHANGED <<apiVars, surrVars, asmVars, chainVars, repeatVars, providerVars>>

\* line 184 resumes once siftsMappings has finished: sortDomainsByEntity
\* (line 185) runs on its result, or the call throws what siftsMappings threw
ResumeSiftsMappingsByEntity ==
    /\ sifts.outer = "awaiting"
    /\ sifts.pc \in {"returned", "threw"}
    /\ IF sifts.pc = "threw"
       THEN sifts' = [sifts EXCEPT !.outer = "threw"]
       ELSE sifts' = [sifts EXCEPT !.outer = "returned", !.result = sortDomainsByEntity(sifts.mappings)]
    /\ UNCHANGED <<entryData, apiVars, surrVars, asmVars, chainVars, repeatVars, providerVars>>

NextDomains ==
    \/ CallSiftsMappings
    \/ CallSiftsMappingsByEntity
    \/ \E i \in 1..Len(requests), status \in ResponseStatuses : Respond(i, status)
    \/ \E i \in 1..Len(requests), body \in ResponseBodies : ReadBody(i, body)
    \/ \E i \in 1..Len(requests) : FetchFails(i)
    \/ ResumeWithProteinMappings
    \/ ResumeWithNucleicMappings
    \/ ResumeSiftsMappingsByEntity

SpecDomains == InitDomains /\ [][NextDomains]_vars

----------------------------------------------------------------------------
(* The chain index as a state machine: a model is loaded, then getChainInfo *)
(* or getChainPolymerResidueCounts is evaluated on it.                      *)

InitChains ==
    /\ model \in ChainModels(MaxChainAtoms)
    /\ chainQuery = NoChainQuery
    /\ surr = NoCall
    /\ asmIdle
    /\ domIdle
    /\ repeatIdle
    /\ providerIdle
    /\ apiIdle

CallGetChainInfo ==
    /\ chainQuery' = [fn |-> "getChainInfo", result |-> getChainInfo(model)]
    /\ UNCHANGED <<surrVars, asmVars, domVars, repeatVars, providerVars, apiVars>>

CallGetChainPolymerResidueCounts ==
    /\ chainQuery' = [fn |-> "getChainPolymerResidueCounts", result |-> getChainPolymerResidueCounts(model)]
    /\ UNCHANGED <<surrVars, asmVars, domVars, repeatVars, providerVars, apiVars>>

NextChains == CallGetChainInfo \/ CallGetChainPolymerResidueCounts

SpecChains == InitChains /\ [][NextChains]_vars

----------------------------------------------------------------------------
(* The residue count as a state machine: a model with its symmetry data is *)
(* loaded, then structurePolymerResidueCount is evaluated for the deposited *)
(* model or for an assembly id.                                             *)

InitCounts ==
    /\ model \in CountModels(MaxChainAtoms)
    /\ symmetry \in CountSymmetries(MaxGroups)
    /\ chainQuery = NoChainQuery
    /\ surr = NoCall
    /\ chainInstancesInfo = None
    /\ instances = NoInstances
    /\ domIdle
    /\ repeatIdle
    /\ providerIdle
    /\ apiIdle

CallStructurePolymerResidueCount(assemblyId) ==
    /\ chainQuery' = [ fn |-> "structurePolymerResidueCount", assemblyId |-> assemblyId,
                       result |-> structurePolymerResidueCount(model, symmetry, assemblyId) ]
    /\ UNCHANGED <<surrVars, asmVars, domVars, repeatVars, providerVars, apiVars>>

NextCounts == \E assemblyId \in CountAssemblyIds : CallStructurePolymerResidueCount(assemblyId)

SpecCounts == InitCounts /\ [][NextCounts]_vars

----------------------------------------------------------------------------
(* mvs-snapshot-provider.ts: MVSSnapshotProvider._loadPdbconnectBase, the  *)
(* choice of the displayed structure                                       *)

PREFERRED == "preferred"
MODEL == "model"

\* What the API serves for the entry under pdb/entry/summary: one record
\* whose assemblies hold no preferred assembly, assembly "1" preferred, or
\* assembly "2" preferred
ApiSummaries ==
    { << [assemblies |-> as] >> :
        as \in { <<[assembly_id |-> "1", preferred |-> FALSE]>>,
                 <<[assembly_id |-> "1", preferred |-> TRUE]>>,
                 <<[assembly_id |-> "1", preferred |-> FALSE], [assembly_id |-> "2", preferred |-> TRUE]>> } }
\* ... under pdb/entry/molecules (entity ids are served as numbers)
ApiMolecules ==
    << [entity_id |-> 1, in_struct_asyms |-> Some(<<"A">>)],
       [entity_id |-> 2, in_struct_asyms |-> Some(<<"C", "B">>)] >>
\* ... under pdb/entry/modified_AA_or_NA
ApiModifiedResidues == << [entity_id |-> 1, struct_asym_id |-> "A", residue_number |-> 10] >>

\* params.assemblyId
LoadAssemblyIds == {PREFERRED, "1", "3", MODEL}
EnsureEntityOptions == {None, Some("1"), Some("2"), Some("3")}
EnsureChainOptions == {None, Some("A"), Some("D")}

\* Symmetry data of the loaded model: undefined, no assembly, assembly "1" of
\* up to maxGroups operator groups, or assemblies "1" and "2" of one group each
LoadSymmetries(maxGroups) ==
    {None, Some([assemblies |-> <<>>])}
    \cup { Some([assemblies |-> << [id |-> "1", operatorGroups |-> gs] >>]) :
             gs \in UNION { [1..n -> CountGroups] : n \in 0..maxGroups } }
    \cup { Some([assemblies |-> << [id |-> "1", operatorGroups |-> <<g1>>],
                                   [id |-> "2", operatorGroups |-> <<g2>>] >>]) :
             g1 \in CountGroups, g2 \in CountGroups }

\* helpers.getPreferredAssembly
getPreferredAssembly(assemblies) ==
    LET hits == {i \in 1..Len(assemblies) : assemblies[i].preferred}
    IN IF hits = {} THEN Threw("Could not find preferred assembly.")
       ELSE Returned(assemblies[SetMin(hits)])

\* chainInstancesInfo[displayedAssembly].operatorsPerChain[chain]?.length > 0
\* (the assembly has an entry in chainInstancesInfo)
chainHasOperators(info, displayedAssembly, chain) ==
    /\ chain \in DOMAIN info[displayedAssembly].operatorsPerChain
    /\ Len(info[displayedAssembly].operatorsPerChain[chain]) > 0

\* if (displayedAssembly !== MODEL && params.ensureEntity !== undefined) { ... }
ensureEntityStep(displayedAssembly, ensureEntity, entities, info) ==
    IF displayedAssembly = MODEL \/ ~ ensureEntity.defined THEN Returned(displayedAssembly)
    ELSE IF ensureEntity.value \notin DOMAIN entities THEN Threw("TypeError")
    ELSE LET entityChains == entities[ensureEntity.value].chains
         IN IF entityChains = <<>> THEN Returned(MODEL)
            ELSE IF displayedAssembly \notin DOMAIN info THEN Threw("TypeError")
            ELSE IF \E k \in 1..Len(entityChains) : chainHasOperators(info, displayedAssembly, entityChains[k])
                 THEN Returned(displayedAssembly)
                 ELSE Returned(MODEL)

\* if (displayedAssembly !== MODEL && params.ensureChain !== undefined) { ... }
ensureChainStep(displayedAssembly, ensureChain, info) ==
    IF displayedAssembly = MODEL \/ ~ ensureChain.defined THEN Returned(displayedAssembly)
    ELSE IF displayedAssembly \notin DOMAIN info THEN Threw("TypeError")
    ELSE IF chainHasOperators(info, displayedAssembly, ensureChain.value)
         THEN Returned(displayedAssembly)
         ELSE Returned(MODEL)

\* json?.[pdbId] ?? []
recordsOrEmpty(entry) == IF entry.defined THEN entry.value ELSE <<>>

\* `${record.entity_id}` for the entity ids 0..9
entityIdString(entity_id) == DecimalDigits[entity_id + 1]

\* ApiDataProvider.assemblies, given the records of the entry: one
\* AssemblyRecord per assembly of every record, in order
RECURSIVE dataProviderAssemblies(_)
dataProviderAssemblies(records) ==
    IF records = <<>> THEN <<>>
    ELSE [ i \in 1..Len(records[1].assemblies) |->
             [ assemblyId |-> records[1].assemblies[i].assembly_id,
               preferred |-> records[1].assemblies[i].preferred ] ]
         \o dataProviderAssemblies(Tail(records))

\* ApiDataProvider.entities: result[record.entity_id] = {..., chains: record.in_struct_asyms ?? []}
RECURSIVE dataProviderEntities(_, _)
dataProviderEntities(result, records) ==
    IF records = <<>> THEN result
    ELSE dataProviderEntities(
             assignEntry(result, entityIdString(records[1].entity_id),
                         [id |-> entityIdString(records[1].entity_id),
                          chains |-> IF records[1].in_struct_asyms.defined
                                     THEN records[1].in_struct_asyms.value ELSE <<>>]),
             Tail(records))

\* ApiDataProvider.modifiedResidues
dataProviderModifiedResidues(records) ==
    [ i \in 1..Len(records) |->
        [ entityId |-> entityIdString(records[i].entity_id), labelAsymId |-> records[i].struct_asym_id,
          labelSeqId |-> records[i].residue_number ] ]

\* The call: `pc` is the await _loadPdbconnectBase stands at ("assemblies",
\* line 446; "entities", 450; "entityModel", 452; "chainModel", 462;
\* "modifiedResidues", 472) or "returned" or "threw"; `awaiting` the request
\* or the getModel call awaited; `resolved` is displayedAssembly after the
\* first statement, `afterEntity` after the ensureEntity block.
NoLoad == [ fn |-> "_loadPdbconnectBase", params |-> None, pc |-> "idle", awaiting |-> 0,
            displayedAssembly |-> NoValue, resolved |-> NoValue, afterEntity |-> NoValue,
            assemblies |-> <<>>, entities |-> EmptyObject, result |-> Returned(<<>>) ]

(* _loadPdbconnectBase as a state machine.  It runs up to its next await; the *)
(* responses of the API and the models of the model provider arrive in steps  *)
(* of their own, and the code after the await runs in a later step.           *)

InitLoad ==
    /\ symmetry \in LoadSymmetries(MaxGroups)
    /\ chainInstancesInfo = None
    /\ instances = NoInstances
    /\ served \in { (SummaryUrl :> summary) @@ (MoleculesUrl :> ApiMolecules)
                      @@ (ModifiedResiduesUrl :> ApiModifiedResidues) : summary \in ApiSummaries }
    /\ apiCache = EmptyObject
    /\ requests = <<>>
    /\ received = <<>>
    /\ surrIdle
    /\ domIdle
    /\ chainIdle
    /\ repeatIdle
    /\ providerIdle

\* lines 449-472 up to the next await, entered at the ensureEntity block
\* (from = "entity"), at the ensureChain block ("chain") or behind it
\* ("structure"), displayedAssembly being d
loadRunsOn(rec, d, from) ==
    IF from = "entity" /\ d # MODEL /\ rec.params.ensureEntity.defined
    THEN \* await this.dataProvider.entities(params.entry)
         LET g == get(apiCache, requests, MoleculesUrl)
         IN /\ apiCache' = g.apiCache
            /\ requests' = g.requests
            /\ received' = Append(received, receivedFrom(MoleculesUrl, g))
            /\ instances' = [rec EXCEPT !.pc = "entities", !.awaiting = g.promise, !.displayedAssembly = d]
            /\ UNCHANGED calls
    ELSE IF from \in {"entity", "chain"} /\ d # MODEL /\ rec.params.ensureChain.defined
    THEN \* await this.modelProvider.getModel(params.entry)
         /\ calls' = getModel(cache, calls, rec.params.entry)
         /\ instances' = [rec EXCEPT !.pc = "chainModel", !.awaiting = Len(calls) + 1,
                                     !.displayedAssembly = d,
                                     !.afterEntity = IF from = "entity" THEN d ELSE @]
         /\ UNCHANGED <<apiCache, requests, received>>
    ELSE \* await this.dataProvider.modifiedResidues(params.entry)
         LET g == get(apiCache, requests, ModifiedResiduesUrl)
         IN /\ apiCache' = g.apiCache
            /\ requests' = g.requests
            /\ received' = Append(received, receivedFrom(ModifiedResiduesUrl, g))
            /\ instances' = [rec EXCEPT !.pc = "modifiedResidues", !.awaiting = g.promise,
                                        !.displayedAssembly = d,
                                        !.afterEntity = IF from = "entity" THEN d ELSE @]
            /\ UNCHANGED calls

\* the call throws
loadThrows(rec, error) ==
    /\ instances' = [rec EXCEPT !.pc = "threw", !.result = Threw(error)]
    /\ UNCHANGED <<apiCache, requests, received, calls>>

\* the call up to its first await; one call is followed per behaviour
CallLoadPdbconnectBase(assemblyId, ensureEntity, ensureChain) ==
    LET rec == [NoLoad EXCEPT !.params = [entry |-> "1tqn", assemblyId |-> assemblyId,
                                          ensureEntity |-> ensureEntity, ensureChain |-> ensureChain]]
    IN /\ instances = NoInstances
       /\ IF assemblyId = PREFERRED
          THEN \* await this.dataProvider.assemblies(params.entry)
               LET g == get(apiCache, requests, SummaryUrl)
               IN /\ apiCache' = g.apiCache
                  /\ requests' = g.requests
                  /\ received' = Append(received, receivedFrom(SummaryUrl, g))
                  /\ instances' = [rec EXCEPT !.pc = "assemblies", !.awaiting = g.promise]
                  /\ UNCHANGED calls
          ELSE loadRunsOn([rec EXCEPT !.resolved = assemblyId], assemblyId, "entity")
       /\ UNCHANGED <<symmetry, chainInstancesInfo, cache, served, surrVars, domVars, chainVars, repeatVars>>

\* line 446 resumes: getPreferredAssembly of the assemblies listed
ResumeWithAssemblies ==
    /\ instances.fn = "_loadPdbconnectBase" /\ instances.pc = "assemblies"
    /\ settled(requests[instances.awaiting])
    /\ IF requests[instances.awaiting].state = "rejected"
       THEN loadThrows(instances, requests[instances.awaiting].value)
       ELSE LET assemblies == dataProviderAssemblies(
                                  recordsOrEmpty(entryOfJson(requests[instances.awaiting], served)))
                preferred == getPreferredAssembly(assemblies)
                rec == [instances EXCEPT !.assemblies = assemblies]
            IN IF preferred.threw THEN loadThrows(rec, preferred.error)
               ELSE loadRunsOn([rec EXCEPT !.resolved = preferred.out.assemblyId],
                               preferred.out.assemblyId, "entity")
    /\ UNCHANGED <<symmetry, chainInstancesInfo, cache, served, surrVars, domVars, chainVars, repeatVars>>

\* line 450 resumes: entities[params.ensureEntity].chains, then
\* await this.modelProvider.getModel(params.entry)
ResumeWithEntities ==
    /\ instances.fn = "_loadPdbconnectBase" /\ instances.pc = "entities"
    /\ settled(requests[instances.awaiting])
    /\ IF requests[instances.awaiting].state = "rejected"
       THEN loadThrows(instances, requests[instances.awaiting].value)
       ELSE LET entities == dataProviderEntities(
                                EmptyObject, recordsOrEmpty(entryOfJson(requests[instances.awaiting], served)))
                rec == [instances EXCEPT !.entities = entities]
            IN IF instances.params.ensureEntity.value \notin DOMAIN entities
               THEN loadThrows(rec, "TypeError")
               ELSE /\ calls' = getModel(cache, calls, instances.params.entry)
                    /\ instances' = [rec EXCEPT !.pc = "entityModel", !.awaiting = Len(calls) + 1]
                    /\ UNCHANGED <<apiCache, requests, received>>
    /\ UNCHANGED <<symmetry, chainInstancesInfo, cache, served, surrVars, domVars, chainVars, repeatVars>>

\* line 452 resumes with the model: lines 453-458.  `symmetry` stands for
\* ModelSymmetry.Provider.get of the model of the entry.
ResumeWithModelForEntity ==
    /\ instances.fn = "_loadPdbconnectBase" /\ instances.pc = "entityModel"
    /\ ~ callInProgress(calls[instances.awaiting])
    /\ IF calls[instances.awaiting].pc = "threw"
       THEN loadThrows(instances, calls[instances.awaiting].error)
       ELSE LET afterEntity == ensureEntityStep(instances.displayedAssembly, instances.params.ensureEntity,
                                               instances.entities, getChainInstancesInAssemblies(symmetry))
            IN IF afterEntity.threw THEN loadThrows(instances, afterEntity.error)
               ELSE loadRunsOn([instances EXCEPT !.afterEntity = afterEntity.out], afterEntity.out, "chain")
    /\ UNCHANGED <<symmetry, chainInstancesInfo, cache, served, surrVars, domVars, chainVars, repeatVars>>

\* line 462 resumes with the model: lines 463-468
ResumeWithModelForChain ==
    /\ instances.fn = "_loadPdbconnectBase" /\ instances.pc = "chainModel"
    /\ ~ callInProgress(calls[instances.awaiting])
    /\ IF calls[instances.awaiting].pc = "threw"
       THEN loadThrows(instances, calls[instances.awaiting].error)
       ELSE LET displayed == ensureChainStep(instances.displayedAssembly, instances.params.ensureChain,
                                             getChainInstancesInAssemblies(symmetry))
            IN IF displayed.threw THEN loadThrows(instances, displayed.error)
               ELSE loadRunsOn(instances, displayed.out, "structure")
    /\ UNCHANGED <<symmetry, chainInstancesInfo, cache, served, surrVars, domVars, chainVars, repeatVars>>

\* line 472 resumes: the structure, its components and the metadata are returned
ResumeWithModifiedResidues ==
    /\ instances.fn = "_loadPdbconnectBase" /\ instances.pc = "modifiedResidues"
    /\ settled(requests[instances.awaiting])
    /\ IF requests[instances.awaiting].state = "rejected"
       THEN loadThrows(instances, requests[instances.awaiting].value)
       ELSE /\ instances' =
                  [instances EXCEPT
                     !.pc = "returned",
                     !.result = Returned([ resolved |-> instances.resolved,
                                           afterEntity |-> instances.afterEntity,
                                           displayed |-> instances.displayedAssembly,
                                           modifiedResidues |-> dataProviderModifiedResidues(
                                               recordsOrEmpty(entryOfJson(requests[instances.awaiting], served))) ])]
            /\ UNCHANGED <<apiCache, requests, received, calls>>
    /\ UNCHANGED <<symmetry, chainInstancesInfo, cache, served, surrVars, domVars, chainVars, repeatVars>>

NextLoad ==
    \/ \E assemblyId \in LoadAssemblyIds, ensureEntity \in EnsureEntityOptions,
          ensureChain \in EnsureChainOptions :
           CallLoadPdbconnectBase(assemblyId, ensureEntity, ensureChain)
    \/ \E i \in 1..Len(requests), status \in ResponseStatuses : Respond(i, status)
    \/ \E i \in 1..Len(requests), body \in ResponseBodies : ReadBody(i, body)
    \/ \E i \in 1..Len(requests) : FetchFails(i)
    \/ \E i \in 1..Len(calls), ok \in BOOLEAN : RespondGetModel(i, ok)
    \/ \E i \in 1..Len(calls) : ResolveGetModel(i)
    \/ \E i \in 1..Len(calls), error \in {"TypeError", "Error"} : RejectGetModel(i, error)
    \/ ResumeWithAssemblies
    \/ ResumeWithEntities
    \/ ResumeWithModelForEntity
    \/ ResumeWithModelForChain
    \/ ResumeWithModifiedResidues

SpecLoad == InitLoad /\ [][NextLoad]_vars

----------------------------------------------------------------------------
(* Repeated queries as a state machine: a model is loaded, then getChainInfo, *)
(* getChainInstancesInAssemblies and chainSurroundings are called on it any   *)
(* number of times, in any order.                                             *)

InitRepeat ==
    /\ model \in RepeatModels(MaxRepeatAtoms)
    /\ symmetry \in RepeatSymmetries
    /\ loaded = Some([model |-> model, symmetry |-> symmetry])
    /\ seen = EmptyObject
    /\ latest = NoRepeatCall
    /\ surr = NoCall
    /\ chainInstancesInfo = None
    /\ instances = NoInstances
    /\ domIdle
    /\ chainIdle
    /\ providerIdle
    /\ apiIdle

\* The caller keeps the first result of every call and the latest result
recordCall(key, result) ==
    /\ seen' = assignIfNullish(seen, key, result)
    /\ latest' = [key |-> key, result |-> result]

RepeatGetChainInfo ==
    /\ recordCall([fn |-> "getChainInfo", labelChainId |-> NoValue, radius |-> 0], getChainInfo(model))
    /\ model' = modelAfterGetChainInfo(model)
    /\ UNCHANGED <<surr, asmVars, domVars, chainVars, loaded, providerVars, apiVars>>

RepeatGetChainInstancesInAssemblies ==
    /\ recordCall([fn |-> "getChainInstancesInAssemblies", labelChainId |-> NoValue, radius |-> 0],
                  getChainInstancesInAssemblies(symmetry))
    /\ symmetry' = symmetryAfterGetChainInstancesInAssemblies(symmetry)
    /\ UNCHANGED <<surrVars, chainInstancesInfo, instances, domVars, chainVars, loaded, providerVars, apiVars>>

RepeatChainSurroundings(labelChainId, radius) ==
    /\ recordCall([fn |-> "chainSurroundings", labelChainId |-> labelChainId, radius |-> radius],
                  chainSurroundings(model, labelChainId, radius))
    /\ model' = modelAfterChainSurroundings(model, labelChainId, radius)
    /\ UNCHANGED <<surr, asmVars, domVars, chainVars, loaded, providerVars, apiVars>>

NextRepeat ==
    \/ RepeatGetChainInfo
    \/ RepeatGetChainInstancesInAssemblies
    \/ \E labelChainId \in modelChainLabels(model), radius \in RepeatRadii :
            RepeatChainSurroundings(labelChainId, radius)

SpecRepeat == InitRepeat /\ [][NextRepeat]_vars

----------------------------------------------------------------------------
(* Properties of chainSurroundings *)

surrReturned == surr.called /\ ~ surr.result.threw

\* Atoms and chain row of a residue, read from the segment tables
atomsOfResidue(m, iRes) ==
    m.atomicHierarchy.residueAtomSegments.offsets[iRes]
        .. (m.atomicHierarchy.residueAtomSegments.offsets[iRes + 1] - 1)
chainOfResidue(m, iRes) ==
    m.atomicHierarchy.chainAtomSegments.index[m.atomicHierarchy.residueAtomSegments.offsets[iRes]]
atomsOfChainLabel(m, label) ==
    {a \in 0..(m.atomicHierarchy.atoms.rowCount - 1) :
        m.atomicHierarchy.chains.label_asym_id[m.atomicHierarchy.chainAtomSegments.index[a]] = label}
residuesOutsideChain(m, label) ==
    {r \in 0..(m.atomicHierarchy.residues.rowCount - 1) :
        m.atomicHierarchy.chains.label_asym_id[chainOfResidue(m, r)] # label}
squaredDistance(m, a, b) ==
    LET c == m.atomicConformation
    IN (c.x[a] - c.x[b]) * (c.x[a] - c.x[b]) + (c.y[a] - c.y[b]) * (c.y[a] - c.y[b])
         + (c.z[a] - c.z[b]) * (c.z[a] - c.z[b])
\* Squared distance from the nearest atom of residue iRes to the chain `label`
nearestSquaredDistance(m, iRes, label) ==
    SetMin({squaredDistance(m, a, t) : a \in atomsOfResidue(m, iRes), t \in atomsOfChainLabel(m, label)})

\* C1: for a radius r > 0 and an existing target chain C, the list returned by
\* chainSurroundings contains no residue of chain C itself.
C1_TargetChainExcluded ==
    (surrReturned /\ surr.radius > 0) =>
        \A i \in 1..Len(surr.result.out) : surr.result.out[i].label_asym_id # surr.labelChainId

\* C1 witness: a call with r > 0 returned residues although atoms of the target
\* are trivially within the radius of the target.
C1_Witness ==
    /\ surrReturned /\ surr.radius > 0
    /\ Len(surr.result.out) > 0

\* C2: for r >= 0 a residue outside the target chain is in the returned list
\* iff one of its atoms is within squared distance r*r of an atom of the target
\* chain (so the bounding-box prefilter rejects no such atom).
C2_ExactlyResiduesWithinRadius ==
    surrReturned =>
        \A iRes \in residuesOutsideChain(model, surr.labelChainId) :
            (residueLocator(model, iRes) \in SeqRange(surr.result.out))
                <=> (nearestSquaredDistance(model, iRes, surr.labelChainId) <= surr.radius * surr.radius)

\* C2 witness: a residue whose nearest atom is exactly 3 away from the target is
\* returned for r = 5.
C2_Witness ==
    /\ surrReturned /\ surr.radius = 5
    /\ \E iRes \in residuesOutsideChain(model, surr.labelChainId) :
          /\ nearestSquaredDistance(model, iRes, surr.labelChainId) = 9
          /\ residueLocator(model, iRes) \in SeqRange(surr.result.out)

\* C3: chainSurroundings with a chain id that matches no label chain id of the
\* model throws the chain-not-found error and yields no list at all.
C3_UnknownChainThrows ==
    (surr.called /\ surr.labelChainId \notin modelChainLabels(model)) =>
        /\ surr.result.threw
        /\ "out" \notin DOMAIN surr.result

\* C3 witness: a call with an unknown chain id was made and threw.
C3_Witness ==
    /\ surr.called /\ surr.labelChainId \notin modelChainLabels(model)
    /\ surr.result.threw

\* C28: chainSurroundings is monotone in the radius: when a call with radius
\* r1 >= 0 is followed by a call on the same model and target chain with a
\* radius r2 >= r1, every residue returned for r1 is returned for r2.
C28_MonotoneInRadius ==
    [][ ( /\ surrReturned /\ surrReturned'
          /\ model' = model
          /\ surr'.labelChainId = surr.labelChainId
          /\ 0 <= surr.radius /\ surr.radius <= surr'.radius )
        => SeqRange(surr.result.out) \subseteq SeqRange(surr'.result.out) ]_vars

\* The last call returned residues of which a smaller positive radius reaches
\* some but not all.
C28_Witness ==
    /\ surrReturned
    /\ \E r1 \in 1..(surr.radius - 1) :
          LET smaller == chainSurroundings(model, surr.labelChainId, r1).out
          IN /\ smaller # <<>>
             /\ SeqRange(smaller) \subseteq SeqRange(surr.result.out)
             /\ SeqRange(smaller) # SeqRange(surr.result.out)

----------------------------------------------------------------------------
(* Properties of getChainInstancesInAssemblies *)

theAssemblies == IF symmetry.defined THEN symmetry.value.assemblies ELSE <<>>
NoDuplicates(list) == \A i, j \in 1..Len(list) : list[i] = list[j] => i = j
Count(list, x) == Cardinality({i \in 1..Len(list) : list[i] = x})
operatorIds(group) == [k \in 1..Len(group.operators) |-> group.operators[k].instanceId]

\* C7: an assembly of one operator group with M distinct operators and a chain
\* set of K distinct chains gives allOperators of length M, operatorsPerChain[c]
\* of length M for each of the K chains and chainsPerOperator[o] of length K for
\* each of the M operators.
C7_CrossProduct ==
    chainInstancesInfo.defined =>
        \A n \in 1..Len(theAssemblies) :
            LET a == theAssemblies[n]
                g == a.operatorGroups[1]
                info == chainInstancesInfo.value[a.id]
            IN ( /\ Len(a.operatorGroups) = 1
                 /\ g.asymIds.defined
                 /\ NoDuplicates(g.asymIds.value)
                 /\ NoDuplicates(operatorIds(g)) ) =>
                    /\ Len(info.allOperators) = Len(g.operators)
                    /\ DOMAIN info.operatorsPerChain = SeqRange(g.asymIds.value)
                    /\ \A c \in SeqRange(g.asymIds.value) :
                          Len(info.operatorsPerChain[c]) = Len(g.operators)
                    /\ DOMAIN info.chainsPerOperator = SeqRange(operatorIds(g))
                    /\ \A o \in SeqRange(operatorIds(g)) :
                          Len(info.chainsPerOperator[o]) = Len(g.asymIds.value)

\* C7 witness: the index was built for an assembly of one group with 2 operators
\* applied to 3 chains.
C7_Witness ==
    /\ chainInstancesInfo.defined
    /\ \E n \in 1..Len(theAssemblies) :
          /\ Len(theAssemblies[n].operatorGroups) = 1
          /\ theAssemblies[n].operatorGroups[1].asymIds.defined
          /\ Len(theAssemblies[n].operatorGroups[1].asymIds.value) = 3
          /\ Len(theAssemblies[n].operatorGroups[1].operators) = 2
          /\ Len(chainInstancesInfo.value[theAssemblies[n].id].allOperators) = 2

\* Occurrences of operator instance ids in an assembly descriptor: <<g, k>> is
\* the k-th operator of the g-th group
occurrences(a) ==
    UNION { {<<g, k>> : k \in 1..Len(a.operatorGroups[g].operators)} : g \in 1..Len(a.operatorGroups) }
occurrencesOf(a, id) ==
    {gk \in occurrences(a) : a.operatorGroups[gk[1]].operators[gk[2]].instanceId = id}
precedes(p, q) == p[1] < q[1] \/ (p[1] = q[1] /\ p[2] < q[2])
firstOccurrence(a, id) ==
    CHOOSE p \in occurrencesOf(a, id) : \A q \in occurrencesOf(a, id) : p = q \/ precedes(p, q)
\* Associations of operator `id` with chain c made by groups that name a chain
\* set: <<g, k, j>> pairs the k-th operator of group g with its j-th chain
associations(a, id, c) ==
    UNION { IF a.operatorGroups[gk[1]].asymIds.defined
            THEN {<<gk[1], gk[2], j>> : j \in {j \in 1..Len(a.operatorGroups[gk[1]].asymIds.value) :
                                                  a.operatorGroups[gk[1]].asymIds.value[j] = c}}
            ELSE {} : gk \in occurrencesOf(a, id) }
operatorIdsOf(a) == {a.operatorGroups[gk[1]].operators[gk[2]].instanceId : gk \in occurrences(a)}
chainIdsOf(a) ==
    UNION { IF a.operatorGroups[g].asymIds.defined THEN SeqRange(a.operatorGroups[g].asymIds.value) ELSE {} :
            g \in 1..Len(a.operatorGroups) }

\* C8: allOperators holds every operator instance id of any group exactly once,
\* ordered by first occurrence, whether or not the group names a chain set;
\* the per-chain indices hold exactly the associations made by groups that name
\* a chain set, so a group without one adds nothing to them.
C8_AllOperatorsAndIndices ==
    chainInstancesInfo.defined =>
        \A n \in 1..Len(theAssemblies) :
            LET a == theAssemblies[n]
                info == chainInstancesInfo.value[a.id]
                all == info.allOperators
            IN /\ SeqRange(all) = operatorIdsOf(a)
               /\ NoDuplicates(all)
               /\ \A i, j \in 1..Len(all) :
                     i < j => precedes(firstOccurrence(a, all[i]), firstOccurrence(a, all[j]))
               /\ \A c \in chainIdsOf(a) \cup DOMAIN info.operatorsPerChain,
                     id \in operatorIdsOf(a) \cup DOMAIN info.chainsPerOperator :
                     LET expected == Cardinality(associations(a, id, c))
                     IN /\ (IF c \in DOMAIN info.operatorsPerChain
                            THEN Count(info.operatorsPerChain[c], id) ELSE 0) = expected
                        /\ (IF id \in DOMAIN info.chainsPerOperator
                            THEN Count(info.chainsPerOperator[id], c) ELSE 0) = expected
               /\ \A c \in DOMAIN info.operatorsPerChain : info.operatorsPerChain[c] # <<>>
               /\ \A id \in DOMAIN info.chainsPerOperator : info.chainsPerOperator[id] # <<>>

\* C8 witness: an operator of a group without chain set is in allOperators with
\* no entry in chainsPerOperator, and a repeated instance id was deduplicated.
C8_Witness ==
    /\ chainInstancesInfo.defined
    /\ \E n \in 1..Len(theAssemblies) :
          LET a == theAssemblies[n]
              info == chainInstancesInfo.value[a.id]
          IN /\ \E id \in SeqRange(info.allOperators) : id \notin DOMAIN info.chainsPerOperator
             /\ Len(info.allOperators) < Cardinality(occurrences(a))
             /\ DOMAIN info.chainsPerOperator # {}

occurrencesIn(index, key, x) == IF key \in DOMAIN index THEN Count(index[key], x) ELSE 0
indexedOperators(info) ==
    DOMAIN info.chainsPerOperator
    \cup UNION {SeqRange(info.operatorsPerChain[c]) : c \in DOMAIN info.operatorsPerChain}
indexedChains(info) ==
    DOMAIN info.operatorsPerChain
    \cup UNION {SeqRange(info.chainsPerOperator[o]) : o \in DOMAIN info.chainsPerOperator}

\* C26: in every entry built by getChainInstancesInAssemblies, operatorsPerChain
\* and chainsPerOperator are transposes of each other as multisets: operator o
\* occurs in operatorsPerChain[c] as often as chain c occurs in
\* chainsPerOperator[o]; and every operator of either index is in allOperators.
C26_IndicesAreTransposes ==
    chainInstancesInfo.defined =>
        \A assemblyId \in DOMAIN chainInstancesInfo.value :
            LET info == chainInstancesInfo.value[assemblyId]
            IN /\ \A c \in indexedChains(info), o \in indexedOperators(info) :
                     occurrencesIn(info.operatorsPerChain, c, o) = occurrencesIn(info.chainsPerOperator, o, c)
               /\ indexedOperators(info) \subseteq SeqRange(info.allOperators)

\* An operator is applied twice to one chain and once to another, and
\* allOperators has an operator that neither index mentions.
C26_Witness ==
    /\ chainInstancesInfo.defined
    /\ \E assemblyId \in DOMAIN chainInstancesInfo.value :
          LET info == chainInstancesInfo.value[assemblyId]
          IN /\ \E c, d \in indexedChains(info), o \in indexedOperators(info) :
                   /\ occurrencesIn(info.operatorsPerChain, c, o) = 2
                   /\ occurrencesIn(info.chainsPerOperator, o, d) = 1
             /\ \E c \in indexedChains(info), o \in SeqRange(info.allOperators) :
                   occurrencesIn(info.operatorsPerChain, c, o) = 0

----------------------------------------------------------------------------
(* Properties of listEntityInstancesInAssembly / listEntityInstancesInModel *)

calledInAssembly ==
    /\ instances.fn = "listEntityInstancesInAssembly"
    /\ chainInstancesInfo.defined
    /\ instances.assemblyId \in DOMAIN chainInstancesInfo.value
infoOfCall == chainInstancesInfo.value[instances.assemblyId]
entityAbsentFromAssembly ==
    \A id \in DOMAIN infoOfCall.chainsPerOperator :
        SeqRange(infoOfCall.chainsPerOperator[id]) \cap SeqRange(instances.entity.chains) = {}

\* C9: listEntityInstancesInAssembly returns an empty list whenever none of the
\* entity's chains occurs in any chainsPerOperator list of the assembly, and
\* listEntityInstancesInModel returns one entry per element of entity.chains,
\* in that order, each with an undefined instance id.
C9_EmptyInAssemblyOnePerChainInModel ==
    /\ (calledInAssembly /\ entityAbsentFromAssembly) => instances.result = Returned(<<>>)
    /\ instances.fn = "listEntityInstancesInModel" =>
          /\ ~ instances.result.threw
          /\ Len(instances.result.out) = Len(instances.entity.chains)
          /\ \A i \in 1..Len(instances.entity.chains) :
                /\ instances.result.out[i].labelAsymId = instances.entity.chains[i]
                /\ instances.result.out[i].instanceId = NoValue

\* C10: the list returned by listEntityInstancesInAssembly holds exactly the
\* pairs (chain, op) with op in allOperators and chain in chainsPerOperator[op]
\* and in the entity's chains, ordered by the position of op in allOperators
\* and, for one op, as in chainsPerOperator[op].
C10_OrderedByOperatorThenChain ==
    (calledInAssembly /\ ~ instances.result.threw) =>
        LET out == instances.result.out
            info == infoOfCall
            entityChains == SeqRange(instances.entity.chains)
            position(id) == CHOOSE i \in 1..Len(info.allOperators) : info.allOperators[i] = id
        IN /\ \A i \in 1..Len(out) : out[i].instanceId \in SeqRange(info.allOperators)
           /\ \A i, j \in 1..Len(out) :
                 i < j => position(out[i].instanceId) <= position(out[j].instanceId)
           /\ \A id \in SeqRange(info.allOperators) :
                 LET ofOperator(pair) == pair.instanceId = id
                     ofEntity(c) == c \in entityChains
                     listed == SelectSeq(out, ofOperator)
                 IN /\ id \in DOMAIN info.chainsPerOperator
                    /\ [i \in 1..Len(listed) |-> listed[i].labelAsymId]
                           = SelectSeq(info.chainsPerOperator[id], ofEntity)

\* C10 witness: a returned list with two chains under one operator followed by
\* another operator, where a chain-first order would differ.
C10_Witness ==
    /\ calledInAssembly /\ ~ instances.result.threw
    /\ \E i, j, k \in 1..Len(instances.result.out) :
          /\ i < j /\ j < k
          /\ instances.result.out[i].instanceId = instances.result.out[j].instanceId
          /\ instances.result.out[i].labelAsymId # instances.result.out[j].labelAsymId
          /\ instances.result.out[k].instanceId # instances.result.out[j].instanceId
          /\ instances.result.out[k].labelAsymId = instances.result.out[i].labelAsymId

\* C11: when listEntityInstancesInAssembly is evaluated for an assembly id that
\* the symmetry metadata does not list, the call completes without throwing
\* and returns the empty list.
C11_AbsentAssemblyYieldsEmpty ==
    ( /\ instances.fn = "listEntityInstancesInAssembly"
      /\ chainInstancesInfo.defined
      /\ instances.assemblyId \notin DOMAIN chainInstancesInfo.value )
    => instances.result = Returned(<<>>)

\* C27: listEntityInstancesInAssembly applied to the entry that
\* getChainInstancesInAssemblies derived for an assembly of the model returns
\* a list without failing, also when an operator group has no chain set, so
\* that an id of allOperators has no chainsPerOperator entry.
C27_ListingNeverFails ==
    calledInAssembly => ~ instances.result.threw

----------------------------------------------------------------------------
(* Properties of extractDomainMappings and sortDomainsByEntity *)

\* the call has returned (the merged entryData is the one it worked on)
calledSiftsMappings == sifts.fn = "siftsMappings" /\ sifts.pc = "returned"
calledSiftsMappingsByEntity == sifts.fn = "siftsMappingsByEntity" /\ sifts.outer = "returned"
sourceFamilies == UNION { {<<s, f>> : f \in DOMAIN entryData[s]} : s \in DOMAIN entryData }
mappingsOf(sf) == entryData[sf[1]][sf[2]].mappings

\* The domain id an input record resolves to, stated without a running
\* counter: record i without ids is the rank-th such record on its author chain
lacksIds(m) == ~ m.domain.defined /\ ~ m.scop_id.defined
adHocRank(ms, i) == Cardinality({j \in 1..i : lacksIds(ms[j]) /\ ms[j].chain_id = ms[i].chain_id})
resolvedId(ms, family, i) ==
    IF ms[i].domain.defined THEN ms[i].domain.value
    ELSE IF ms[i].scop_id.defined THEN ms[i].scop_id.value
    ELSE IF adHocRank(ms, i) = 1 THEN family \o <<"_">> \o ms[i].chain_id
    ELSE family \o <<"_">> \o ms[i].chain_id \o <<"_">> \o NumberToString(adHocRank(ms, i))
\* The input positions resolving to `id`, ascending
recordsOf(ms, family, id) ==
    LET S == {i \in 1..Len(ms) : resolvedId(ms, family, i) = id}
    IN [k \in 1..Cardinality(S) |-> CHOOSE i \in S : Cardinality({j \in S : j < i}) = k - 1]
carriesRecord(chunk, m) ==
    /\ chunk.entityId = NumberToString(m.entity_id)
    /\ chunk.chainId = m.struct_asym_id
    /\ chunk.authChainId = m.chain_id
    /\ {chunk.startResidue, chunk.endResidue} = {residueNumber(m.start), residueNumber(m.end)}

\* C4: the input records resolving to one domain id are folded into exactly one
\* DomainRecord; its chunks are those records in input order and the k-th
\* chunk has segment k.
C4_OneRecordPerIdSegmentsInOrder ==
    calledSiftsMappings =>
        \A sf \in sourceFamilies :
            LET ms == mappingsOf(sf)
                out == sifts.result[sf[1]][sf[2]]
            IN /\ {out[n].id : n \in 1..Len(out)} = {resolvedId(ms, sf[2], i) : i \in 1..Len(ms)}
               /\ \A n1, n2 \in 1..Len(out) : out[n1].id = out[n2].id => n1 = n2
               /\ \A n \in 1..Len(out) :
                     LET from == recordsOf(ms, sf[2], out[n].id)
                     IN /\ Len(out[n].chunks) = Len(from)
                        /\ \A k \in 1..Len(from) :
                              /\ out[n].chunks[k].segment = k
                              /\ carriesRecord(out[n].chunks[k], ms[from[k]])

\* C4 witness: records sharing the native domain id were folded into one
\* DomainRecord with several chunks.
C4_Witness ==
    /\ calledSiftsMappings
    /\ \E sf \in sourceFamilies :
          \E n \in 1..Len(sifts.result[sf[1]][sf[2]]) :
              LET d == sifts.result[sf[1]][sf[2]][n]
              IN /\ d.id = <<"d", "1">>
                 /\ Len(d.chunks) >= 2
                 /\ d.chunks[2].segment = 2
                 /\ Cardinality({i \in 1..Len(mappingsOf(sf)) : mappingsOf(sf)[i].domain = Some(<<"d", "1">>)})
                      = Len(d.chunks)

\* C5: a chunk with both bounds defined has startResidue <= endResidue; a record
\* with start > end is stored swapped, any other record unchanged.
C5_RangeNormalized ==
    calledSiftsMappings =>
        \A sf \in sourceFamilies :
            LET ms == mappingsOf(sf)
                out == sifts.result[sf[1]][sf[2]]
            IN \A n \in 1..Len(out) :
                  LET from == recordsOf(ms, sf[2], out[n].id)
                  IN \A k \in 1..Len(out[n].chunks) :
                        LET chunk == out[n].chunks[k]
                            start == residueNumber(ms[from[k]].start)
                            end == residueNumber(ms[from[k]].end)
                        IN /\ (chunk.startResidue.defined /\ chunk.endResidue.defined)
                                => chunk.startResidue.value <= chunk.endResidue.value
                           /\ IF start.defined /\ end.defined /\ start.value > end.value
                              THEN chunk.startResidue = end /\ chunk.endResidue = start
                              ELSE chunk.startResidue = start /\ chunk.endResidue = end

\* C5 witness: a record with start = 50, end = 10 was stored as 10..50.
C5_Witness ==
    /\ calledSiftsMappings
    /\ \E sf \in sourceFamilies :
          /\ Len(mappingsOf(sf)) = 1
          /\ residueNumber(mappingsOf(sf)[1].start) = Some(50)
          /\ residueNumber(mappingsOf(sf)[1].end) = Some(10)
          /\ sifts.result[sf[1]][sf[2]][1].chunks[1].startResidue = Some(10)
          /\ sifts.result[sf[1]][sf[2]][1].chunks[1].endResidue = Some(50)

\* The bucket result[source][family][entityId], empty when a key is missing
bucket(result, source, family, entityId) ==
    IF source \in DOMAIN result /\ family \in DOMAIN result[source]
       /\ entityId \in DOMAIN result[source][family]
    THEN result[source][family][entityId]
    ELSE <<>>
chunkEntityIds(domains) ==
    UNION { {domains[n].chunks[k].entityId : k \in 1..Len(domains[n].chunks)} : n \in 1..Len(domains) }

\* C6: sortDomainsByEntity places every DomainRecord exactly once, under its own
\* source and family and under the entity id of its first chunk only, keeping
\* the input order within a bucket.
C6_ByEntityOfFirstChunk ==
    calledSiftsMappingsByEntity =>
        LET domains == siftsMappings(entryData)
            result == sifts.result
        IN /\ \A s \in DOMAIN result :
                 /\ s \in DOMAIN domains
                 /\ \A f \in DOMAIN result[s] :
                       /\ f \in DOMAIN domains[s]
                       /\ \A e \in DOMAIN result[s][f] : result[s][f][e] # <<>>
           /\ \A sf \in sourceFamilies :
                 LET familyDomains == domains[sf[1]][sf[2]]
                     keys == IF sf[1] \in DOMAIN result /\ sf[2] \in DOMAIN result[sf[1]]
                             THEN DOMAIN result[sf[1]][sf[2]] ELSE {}
                 IN \A e \in chunkEntityIds(familyDomains) \cup keys :
                       LET firstChunkIn(d) == d.chunks[1].entityId = e
                       IN bucket(result, sf[1], sf[2], e) = SelectSeq(familyDomains, firstChunkIn)

\* C6 witness: a record whose chunks span two entities sits in the bucket of its
\* first chunk's entity, and the other entity has no bucket holding it.
C6_Witness ==
    /\ calledSiftsMappingsByEntity
    /\ \E s \in DOMAIN sifts.result : \E f \in DOMAIN sifts.result[s] : \E e \in DOMAIN sifts.result[s][f] :
          \E n \in 1..Len(sifts.result[s][f][e]) :
              LET d == sifts.result[s][f][e][n]
              IN /\ d.chunks[1].entityId = e
                 /\ \E k \in 1..Len(d.chunks) :
                       /\ d.chunks[k].entityId # e
                       /\ \A m \in 1..Len(bucket(sifts.result, s, f, d.chunks[k].entityId)) :
                             bucket(sifts.result, s, f, d.chunks[k].entityId)[m].id # d.id

\* C12: every input record is held by the DomainRecord whose id is the record's
\* native domain id if present, else its SCOP id if present, else family_X for
\* the first id-less record on author chain X and family_X_N for the N-th;
\* only id-less records on X advance the counter of X.
C12_IdPrecedenceAndSynthesis ==
    calledSiftsMappings =>
        \A sf \in sourceFamilies :
            LET ms == mappingsOf(sf)
                family == sf[2]
                out == sifts.result[sf[1]][sf[2]]
                earlierIdLess(i) == {j \in 1..(i-1) : lacksIds(ms[j]) /\ ms[j].chain_id = ms[i].chain_id}
                expectedId(i) ==
                    IF ms[i].domain.defined THEN ms[i].domain.value
                    ELSE IF ms[i].scop_id.defined THEN ms[i].scop_id.value
                    ELSE IF earlierIdLess(i) = {} THEN family \o <<"_">> \o ms[i].chain_id
                    ELSE family \o <<"_">> \o ms[i].chain_id \o <<"_">>
                             \o NumberToString(Cardinality(earlierIdLess(i)) + 1)
                holds(d, i) == \E k \in 1..Len(d.chunks) : carriesRecord(d.chunks[k], ms[i])
            IN /\ \A i \in 1..Len(ms) :
                     \E n \in 1..Len(out) : out[n].id = expectedId(i) /\ holds(out[n], i)
               /\ \A n \in 1..Len(out) :
                     /\ \E i \in 1..Len(ms) : out[n].id = expectedId(i)
                     /\ Len(out[n].chunks) = Cardinality({i \in 1..Len(ms) : out[n].id = expectedId(i)})

\* C12 witness: two id-less records on one author chain, separated by a record
\* on that chain with only a SCOP id, got family_X and family_X_2, and the
\* record between them got its SCOP id.
C12_Witness ==
    /\ calledSiftsMappings
    /\ \E sf \in sourceFamilies :
          LET ms == mappingsOf(sf)
              out == sifts.result[sf[1]][sf[2]]
          IN /\ Len(ms) = 3
             /\ lacksIds(ms[1]) /\ lacksIds(ms[3]) /\ ms[1].chain_id = ms[3].chain_id
             /\ ~ ms[2].domain.defined /\ ms[2].scop_id.defined /\ ms[2].chain_id = ms[1].chain_id
             /\ \E n \in 1..Len(out) : out[n].id = ms[2].scop_id.value
             /\ \E n \in 1..Len(out) : out[n].id = sf[2] \o <<"_">> \o ms[1].chain_id
             /\ \E n \in 1..Len(out) : out[n].id = sf[2] \o <<"_">> \o ms[1].chain_id \o <<"_", "2">>

\* Lexicographic order of strings by code unit: a and b agree up to a position
\* where a has ended and b has not, or where a's character is the smaller one
lexicographicallyBefore(a, b) ==
    \E p \in 1..(Len(b)) :
        /\ p <= Len(a) + 1
        /\ \A q \in 1..(p-1) : a[q] = b[q]
        /\ (p = Len(a) + 1 \/ CodeUnit(a[p]) < CodeUnit(b[p]))

\* C13: the list returned by extractDomainMappings is strictly ascending by
\* domain id in lexicographic order, so no two of its records share an id,
\* whatever the order of the input records.
C13_StrictlyAscendingById ==
    calledSiftsMappings =>
        \A sf \in sourceFamilies :
            LET out == sifts.result[sf[1]][sf[2]]
            IN /\ \A n \in 1..(Len(out) - 1) : lexicographicallyBefore(out[n].id, out[n+1].id)
               /\ \A n1, n2 \in 1..Len(out) : n1 # n2 => out[n1].id # out[n2].id

\* C13 witness: three records whose ids arrive in descending order are returned
\* in ascending order, with an upper-case synthesized id before lower-case ids.
C13_Witness ==
    /\ calledSiftsMappings
    /\ \E sf \in sourceFamilies :
          LET ms == mappingsOf(sf)
              out == sifts.result[sf[1]][sf[2]]
          IN /\ Len(ms) = 3 /\ Len(out) = 3
             /\ out[3].id = resolvedId(ms, sf[2], 1)
             /\ out[2].id = resolvedId(ms, sf[2], 2)
             /\ out[1].id = resolvedId(ms, sf[2], 3)
             /\ lacksIds(ms[3])

----------------------------------------------------------------------------
(* Properties of getChainInfo and getChainPolymerResidueCounts *)

chainTable == model.atomicHierarchy.chains
chainRowsOf(label) == {i \in 0..(chainTable.rowCount - 1) : chainTable.label_asym_id[i] = label}

\* C14: the keys of the object returned by getChainInfo are exactly the label
\* chain ids of the chain table, and the entry of a label id holds the author
\* chain id and entity id of the first row with that label id.
C14_OneEntryPerLabelFirstRowWins ==
    chainQuery.fn = "getChainInfo" =>
        /\ DOMAIN chainQuery.result = {chainTable.label_asym_id[i] : i \in 0..(chainTable.rowCount - 1)}
        /\ \A label \in DOMAIN chainQuery.result :
              \E first \in chainRowsOf(label) :
                  /\ \A i \in chainRowsOf(label) : first <= i
                  /\ chainQuery.result[label].authChainId = chainTable.auth_asym_id[first]
                  /\ chainQuery.result[label].entityId = chainTable.label_entity_id[first]

\* C14 witness: a label id occurs in two rows that differ in author chain id
\* and in entity id, next to a row of another label id.
C14_Witness ==
    /\ chainQuery.fn = "getChainInfo"
    /\ Cardinality(DOMAIN chainQuery.result) = 2
    /\ \E label \in DOMAIN chainQuery.result : \E i, j \in chainRowsOf(label) :
          /\ i < j
          /\ chainTable.auth_asym_id[i] # chainTable.auth_asym_id[j]
          /\ chainTable.label_entity_id[i] # chainTable.label_entity_id[j]

atomsOfChainRow(i) ==
    model.atomicHierarchy.chainAtomSegments.offsets[i] .. (model.atomicHierarchy.chainAtomSegments.offsets[i + 1] - 1)
residuesOfChainRow(i) == {model.atomicHierarchy.residueAtomSegments.index[a] : a \in atomsOfChainRow(i)}
entityTypeOfChainRow(i) ==
    LET types == {model.entities.data.type[e] : e \in {e \in DOMAIN model.entities.data.id :
                      model.entities.data.id[e] = chainTable.label_entity_id[i]}}
    IN CHOOSE t \in types : TRUE
labelIsUnique(i) == chainRowsOf(chainTable.label_asym_id[i]) = {i}

\* C15: getChainPolymerResidueCounts has an entry for a chain (a row whose
\* label id no other row carries) exactly when the chain's entity is of type
\* 'polymer', and the entry is the number of distinct
\* residues owning the chain's atoms, which is the residue index of the
\* chain's last atom minus that of its first atom plus one.
C15_PolymerChainsResidueCount ==
    chainQuery.fn = "getChainPolymerResidueCounts" =>
        /\ DOMAIN chainQuery.result \subseteq {chainTable.label_asym_id[i] : i \in 0..(chainTable.rowCount - 1)}
        /\ \A i \in 0..(chainTable.rowCount - 1) :
              labelIsUnique(i) =>
                  LET label == chainTable.label_asym_id[i]
                      index == model.atomicHierarchy.residueAtomSegments.index
                      firstAtom == CHOOSE a \in atomsOfChainRow(i) : \A b \in atomsOfChainRow(i) : a <= b
                      lastAtom == CHOOSE a \in atomsOfChainRow(i) : \A b \in atomsOfChainRow(i) : a >= b
                  IN /\ label \in DOMAIN chainQuery.result <=> entityTypeOfChainRow(i) = "polymer"
                     /\ label \in DOMAIN chainQuery.result =>
                            /\ chainQuery.result[label] = Cardinality(residuesOfChainRow(i))
                            /\ chainQuery.result[label] = index[lastAtom] - index[firstAtom] + 1

\* C15 witness: a polymer chain that is not the first chain and has more atoms
\* than residues is counted, and a chain of a water entity has no entry.
C15_Witness ==
    /\ chainQuery.fn = "getChainPolymerResidueCounts"
    /\ \E i, j \in 0..(chainTable.rowCount - 1) :
          /\ labelIsUnique(i) /\ labelIsUnique(j)
          /\ i > 0
          /\ chainTable.label_asym_id[i] \in DOMAIN chainQuery.result
          /\ chainQuery.result[chainTable.label_asym_id[i]] < Cardinality(atomsOfChainRow(i))
          /\ entityTypeOfChainRow(j) = "water"
          /\ chainTable.label_asym_id[j] \notin DOMAIN chainQuery.result

----------------------------------------------------------------------------
(* Properties of MolstarModelProvider.getModel *)

\* No call began or ran while another call was awaiting its fetch
sequentialCalls == \A i \in 1..Len(calls) : ~ calls[i].overlapped

\* C17: over sequential calls, a getModel call that follows a resolved call for
\* the same entry id returns that call's model without fetching; one that
\* follows a resolved call for another entry id fetches, and once it has
\* resolved the slot holds its entry id and its model, so that a later call
\* for the earlier entry id fetches again.
C17_SingleSlotOverSequentialCalls ==
    sequentialCalls =>
        \A j \in 2..Len(calls) :
            calls[j-1].pc = "returned" =>
                IF calls[j].entryId = calls[j-1].entryId
                THEN /\ ~ calls[j].fetched
                     /\ calls[j].pc = "returned"
                     /\ calls[j].result = calls[j-1].result
                ELSE /\ calls[j].fetched
                     /\ (calls[j].pc = "returned" /\ j = Len(calls)) =>
                            /\ cache.entryId = Some(calls[j].entryId)
                            /\ cache.model = calls[j].result

\* C17 witness: sequential calls for e, e, e', e: the second is served from the
\* slot, the third and the fourth fetch, and the fourth returns a model object
\* other than the first.
C17_Witness ==
    /\ sequentialCalls
    /\ Len(calls) = 4
    /\ \A i \in 1..4 : calls[i].pc = "returned"
    /\ calls[1].entryId = calls[2].entryId /\ calls[3].entryId # calls[1].entryId
    /\ calls[4].entryId = calls[1].entryId
    /\ ~ calls[2].fetched /\ calls[3].fetched /\ calls[4].fetched
    /\ calls[4].result # calls[1].result
    /\ cache.model = calls[4].result

\* C18: whenever no getModel call is in progress (and none has failed), the
\* slot holds the entry id of the most recently requested entry and the model
\* parsed for it.
C18_SlotHoldsMostRecentlyRequested ==
    ( /\ calls # <<>>
      /\ ~ anyCallInProgress(calls)
      /\ \A i \in 1..Len(calls) : calls[i].pc = "returned" )
    => /\ cache.entryId = Some(calls[Len(calls)].entryId)
       /\ cache.model.defined
       /\ cache.model.value.entryId = calls[Len(calls)].entryId

\* the calls that were served from the slot
cacheHits == {i \in 1..Len(calls) : calls[i].pc = "returned" /\ ~ calls[i].fetched}

\* C29: under any interleaving of getModel calls for equal or different entry
\* ids, a model held by the slot is the model that was fetched and parsed for
\* the entry id stored alongside it, and a call served from the slot returns
\* a model of the entry it asked for.
C29_SlotModelBelongsToSlotEntry ==
    /\ cache.model.defined =>
          /\ cache.entryId.defined
          /\ cache.model.value.entryId = cache.entryId.value
          /\ \E i \in 1..Len(calls) :
                /\ calls[i].fetched /\ calls[i].pc = "returned"
                /\ calls[i].entryId = cache.entryId.value
                /\ calls[i].result = cache.model
    /\ \A i \in cacheHits : calls[i].result.value.entryId = calls[i].entryId

\* Fetches for two entries overlapped, both resolved, and a later call was
\* served from the slot with the model of the fetch that resolved last.
C29_Witness ==
    \E i, j, k \in 1..Len(calls) :
        /\ i < j /\ j < k
        /\ calls[i].entryId # calls[j].entryId
        /\ calls[i].fetched /\ calls[i].overlapped /\ calls[i].pc = "returned"
        /\ calls[j].fetched /\ calls[j].overlapped /\ calls[j].pc = "returned"
        /\ k \in cacheHits
        /\ calls[k].result = calls[i].result
        /\ cache.model = calls[i].result

\* a step in which a getModel call that was awaiting its fetch rejects
someCallRejects == \E i \in 1..Len(calls) : calls[i].pc = "awaiting" /\ calls'[i].pc = "threw"
\* the slot names an entry only if a fetch for that entry resolved
slotEntryWasFetched ==
    cache.entryId.defined =>
        \E i \in 1..Len(calls) :
            calls[i].fetched /\ calls[i].pc = "returned" /\ calls[i].entryId = cache.entryId.value
\* over sequential calls: a call for the entry cached before a failed call is
\* served from the slot
servedAfterFailure ==
    sequentialCalls =>
        \A j \in 2..(Len(calls) - 1) :
            ( /\ calls[j-1].pc = "returned" /\ calls[j].pc = "threw"
              /\ calls[j+1].entryId = calls[j-1].entryId )
            => /\ ~ calls[j+1].fetched
               /\ calls[j+1].result = calls[j-1].result

\* C30: a getModel call whose fetch or parse fails rejects and leaves the
\* cached entry id and the cached model as they were: the step in which it
\* rejects does not change the slot, a previously cached entry is still
\* served from the slot afterwards, and an entry id whose fetch never
\* resolved is never recorded as cached.
C30_FailureLeavesSlotUnchanged ==
    [][ /\ someCallRejects => cache' = cache
        /\ slotEntryWasFetched'
        /\ servedAfterFailure' ]_vars

\* Sequential calls: an entry was fetched and cached, a call for another
\* entry failed, and the next call for the first entry was served from the
\* slot.
C30_Witness ==
    /\ sequentialCalls
    /\ \E j \in 2..(Len(calls) - 1) :
          /\ calls[j-1].pc = "returned" /\ calls[j-1].fetched
          /\ calls[j].pc = "threw" /\ calls[j].entryId # calls[j-1].entryId
          /\ calls[j+1].entryId = calls[j-1].entryId
          /\ ~ calls[j+1].fetched /\ calls[j+1].pc = "returned"
          /\ cache.entryId = Some(calls[j-1].entryId)

----------------------------------------------------------------------------
(* Further properties of chainSurroundings *)

\* The residue index a returned locator stands for
residueIndexOf(m, locator) ==
    CHOOSE r \in 0..(m.atomicHierarchy.residues.rowCount - 1) : residueLocator(m, r) = locator
acceptedAtoms(m, iRes, label, radius) ==
    {a \in atomsOfResidue(m, iRes) :
        \E t \in atomsOfChainLabel(m, label) : squaredDistance(m, a, t) <= radius * radius}

\* C19: the list returned by chainSurroundings names no residue twice and is in
\* strictly ascending order of residue index.
C19_NoDuplicatesAscending ==
    surrReturned =>
        LET out == surr.result.out
        IN /\ \A i, j \in 1..Len(out) : i # j => out[i] # out[j]
           /\ \A i \in 1..(Len(out) - 1) :
                 residueIndexOf(model, out[i]) < residueIndexOf(model, out[i+1])

\* C19 witness: a residue outside the target has two atoms within the radius
\* and is returned once.
C19_Witness ==
    /\ surrReturned
    /\ \E iRes \in residuesOutsideChain(model, surr.labelChainId) :
          /\ Cardinality(acceptedAtoms(model, iRes, surr.labelChainId, surr.radius)) >= 2
          /\ \E i \in 1..Len(surr.result.out) :
                /\ surr.result.out[i] = residueLocator(model, iRes)
                /\ \A j \in 1..Len(surr.result.out) : j # i => surr.result.out[j] # surr.result.out[i]

----------------------------------------------------------------------------
(* Further properties of extractDomainMappings under siftsMappings *)

idLessOn(ms, chain) == {i \in 1..Len(ms) : lacksIds(ms[i]) /\ ms[i].chain_id = chain}
authorChainsOf(ms) == {ms[i].chain_id : i \in 1..Len(ms)}

\* C20: in every family that siftsMappings processes, the first id-less record
\* on author chain X is held by the DomainRecord with the unsuffixed id
\* family_X, whatever id-less records on X the other families hold.
C20_CounterStartsAfreshPerFamily ==
    calledSiftsMappings =>
        \A sf \in sourceFamilies :
            LET ms == mappingsOf(sf)
                out == sifts.result[sf[1]][sf[2]]
            IN \A chain \in authorChainsOf(ms) :
                  idLessOn(ms, chain) # {} =>
                      LET first == CHOOSE i \in idLessOn(ms, chain) : \A j \in idLessOn(ms, chain) : i <= j
                      IN \E n \in 1..Len(out) :
                            /\ out[n].id = sf[2] \o <<"_">> \o chain
                            /\ \E k \in 1..Len(out[n].chunks) : carriesRecord(out[n].chunks[k], ms[first])

\* C20 witness: two families each hold two id-less records on one author chain
\* X; both results have family_X and family_X_2.
C20_Witness ==
    /\ calledSiftsMappings
    /\ \E sf1, sf2 \in sourceFamilies : \E chain \in authorChainsOf(mappingsOf(sf1)) :
          /\ sf1 # sf2
          /\ \A sf \in {sf1, sf2} :
                /\ Cardinality(idLessOn(mappingsOf(sf), chain)) = 2
                /\ {sifts.result[sf[1]][sf[2]][n].id : n \in 1..Len(sifts.result[sf[1]][sf[2]])}
                      = {sf[2] \o <<"_">> \o chain, sf[2] \o <<"_">> \o chain \o <<"_", "2">>}

\* the ids that input records bring along (native or SCOP)
givenIds(ms) ==
    {ms[i].domain.value : i \in {i \in 1..Len(ms) : ms[i].domain.defined}}
    \cup {ms[i].scop_id.value : i \in {i \in 1..Len(ms) : ms[i].scop_id.defined}}
idLess(ms) == {i \in 1..Len(ms) : lacksIds(ms[i])}

\* C24: within one extractDomainMappings call the ids synthesized for records
\* lacking both a native and a SCOP id are pairwise distinct across all author
\* chains: there are as many DomainRecords with a synthesized id as id-less
\* input records, each of a single chunk, so that no two id-less records are
\* merged into one domain.
C24_SynthesizedIdsPairwiseDistinct ==
    calledSiftsMappings =>
        \A sf \in sourceFamilies :
            LET ms == mappingsOf(sf)
                out == sifts.result[sf[1]][sf[2]]
                synthesized == {n \in 1..Len(out) : out[n].id \notin givenIds(ms)}
            IN /\ Cardinality(synthesized) = Cardinality(idLess(ms))
               /\ \A n \in synthesized : Len(out[n].chunks) = 1

\* the chunks of all returned records, as (record, position) pairs
chunksOf(out) == UNION { {<<n, k>> : k \in 1..Len(out[n].chunks)} : n \in 1..Len(out) }
chainTriple(entityId, chainId, authChainId) ==
    [entityId |-> entityId, chainId |-> chainId, authChainId |-> authChainId]
chunkTriple(chunk) == chainTriple(chunk.entityId, chunk.chainId, chunk.authChainId)
mappingTriple(m) == chainTriple(NumberToString(m.entity_id), m.struct_asym_id, m.chain_id)

\* C25: extractDomainMappings neither drops nor duplicates input: the chunks
\* of all returned DomainRecords are as many as the input mapping records,
\* every returned record has at least one chunk, and for every entity id,
\* label chain id and author chain id there are as many chunks carrying them
\* as input records carrying them (each input record contributes one chunk).
C25_ChunksConserved ==
    calledSiftsMappings =>
        \A sf \in sourceFamilies :
            LET ms == mappingsOf(sf)
                out == sifts.result[sf[1]][sf[2]]
            IN /\ Cardinality(chunksOf(out)) = Len(ms)
               /\ \A n \in 1..Len(out) : Len(out[n].chunks) >= 1
               /\ \A i \in 1..Len(ms) :
                     Cardinality({c \in chunksOf(out) : chunkTriple(out[c[1]].chunks[c[2]]) = mappingTriple(ms[i])})
                        = Cardinality({j \in 1..Len(ms) : mappingTriple(ms[j]) = mappingTriple(ms[i])})
               /\ \A c \in chunksOf(out) :
                     \E i \in 1..Len(ms) : chunkTriple(out[c[1]].chunks[c[2]]) = mappingTriple(ms[i])

\* Three input records on two chains are folded into two DomainRecords, one
\* of them holding chunks of both chains.
C25_Witness ==
    /\ calledSiftsMappings
    /\ \E sf \in sourceFamilies :
          LET ms == mappingsOf(sf)
              out == sifts.result[sf[1]][sf[2]]
          IN /\ Len(ms) = 3
             /\ Len(out) = 2
             /\ \E n \in 1..Len(out) :
                   /\ Len(out[n].chunks) = 2
                   /\ out[n].chunks[1].authChainId # out[n].chunks[2].authChainId

----------------------------------------------------------------------------
(* Properties of structurePolymerResidueCount *)

RECURSIVE SumOver(_, _)
SumOver(f, S) ==
    IF S = {} THEN 0
    ELSE LET x == CHOOSE y \in S : TRUE IN f[x] + SumOver(f, S \ {x})

countCalled == chainQuery.fn = "structurePolymerResidueCount"
chainRowsAll == 0..(chainTable.rowCount - 1)
\* number of distinct residues of a chain row of a polymer entity, else 0
polymerResiduesOfChainRow(i) ==
    IF entityTypeOfChainRow(i) = "polymer" THEN Cardinality(residuesOfChainRow(i)) ELSE 0
\* the assemblies whose id is the requested one, letter case ignored
requestedAssemblies(assemblyId) ==
    IF symmetry.defined
    THEN {k \in 1..Len(symmetry.value.assemblies) :
             toLowerCase(symmetry.value.assemblies[k].id) = toLowerCase(assemblyId)}
    ELSE {}
\* operators applied to a chain label, summed over the operator groups naming it
operatorsAppliedTo(label, assembly) ==
    LET groups == assembly.operatorGroups
        naming == {g \in 1..Len(groups) :
                     groups[g].asymIds.defined /\ label \in SeqRange(groups[g].asymIds.value)}
    IN SumOver([g \in naming |-> Len(groups[g].operators)], naming)

\* C21: structurePolymerResidueCount returns, for an undefined assemblyId, the
\* sum of the polymer residue counts of all chains, each chain once; for an
\* existing assembly (ids compared ignoring letter case), the sum over chains
\* of the number of operators applied to the chain, summed over the operator
\* groups naming it, times the chain's polymer residue count, non-polymer
\* chains contributing 0; and 0 for an assembly id that does not exist.
C21_ResidueCountOfStructure ==
    countCalled =>
        IF ~ chainQuery.assemblyId.defined
        THEN chainQuery.result = SumOver([i \in chainRowsAll |-> polymerResiduesOfChainRow(i)], chainRowsAll)
        ELSE IF requestedAssemblies(chainQuery.assemblyId.value) = {}
        THEN chainQuery.result = 0
        ELSE LET assembly == symmetry.value.assemblies[SetMin(requestedAssemblies(chainQuery.assemblyId.value))]
             IN chainQuery.result =
                    SumOver([i \in chainRowsAll |->
                                operatorsAppliedTo(chainTable.label_asym_id[i], assembly)
                                    * polymerResiduesOfChainRow(i)],
                            chainRowsAll)

\* An assembly in which a polymer chain of two residues is named by two
\* operator groups, one of them with two operators, and a non-polymer chain
\* is named as well.
C21_Witness ==
    /\ countCalled
    /\ chainQuery.assemblyId = Some("a")
    /\ requestedAssemblies("a") # {}
    /\ \E i, j \in chainRowsAll :
          LET assembly == symmetry.value.assemblies[SetMin(requestedAssemblies("a"))]
              groups == assembly.operatorGroups
          IN /\ polymerResiduesOfChainRow(i) >= 2
             /\ Cardinality({g \in 1..Len(groups) : groups[g].asymIds.defined
                                 /\ chainTable.label_asym_id[i] \in SeqRange(groups[g].asymIds.value)}) >= 2
             /\ operatorsAppliedTo(chainTable.label_asym_id[i], assembly) >= 3
             /\ entityTypeOfChainRow(j) = "water"
             /\ operatorsAppliedTo(chainTable.label_asym_id[j], assembly) >= 1
             /\ chainQuery.result > 0

----------------------------------------------------------------------------
(* Properties of _loadPdbconnectBase *)

\* the call has returned or thrown
loadCalled == instances.fn = "_loadPdbconnectBase" /\ instances.pc \in {"returned", "threw"}
\* the assembly the request resolves to, when it resolves to one
resolvedAssemblies ==
    IF instances.params.assemblyId = PREFERRED
    THEN {instances.assemblies[i].assemblyId : i \in {i \in 1..Len(instances.assemblies) :
                                                       instances.assemblies[i].preferred}}
    ELSE {instances.params.assemblyId}
\* operators applied to a chain in the assemblies of the given id
operatorsOfChainIn(chain, assemblyId) ==
    IF ~ symmetry.defined THEN {}
    ELSE UNION { UNION { {g.operators[o].instanceId : o \in 1..Len(g.operators)} :
                           g \in {g \in SeqRange(a.operatorGroups) :
                                     g.asymIds.defined /\ chain \in SeqRange(g.asymIds.value)} } :
                 a \in {a \in SeqRange(symmetry.value.assemblies) : a.id = assemblyId} }
entityPresentIn(entityId, assemblyId) ==
    /\ entityId \in DOMAIN instances.entities
    /\ \E chain \in SeqRange(instances.entities[entityId].chains) :
          operatorsOfChainIn(chain, assemblyId) # {}
\* the request resolves to an assembly, not to the deposited model
loadOfAssembly ==
    /\ loadCalled
    /\ resolvedAssemblies # {}
    /\ MODEL \notin resolvedAssemblies
\* what the claim says of a call that returned
loadFallsBackAsClaimed ==
    LET params == instances.params
        out == instances.result.out
    IN \A assemblyId \in resolvedAssemblies :
        /\ out.resolved = assemblyId
        /\ params.ensureEntity.defined =>
              (out.afterEntity = MODEL <=> ~ entityPresentIn(params.ensureEntity.value, assemblyId))
        /\ ~ params.ensureEntity.defined => out.afterEntity = assemblyId
        /\ out.afterEntity \in {assemblyId, MODEL}
        /\ out.afterEntity = MODEL => out.displayed = MODEL
        /\ (out.afterEntity # MODEL /\ params.ensureChain.defined) =>
              (out.displayed = MODEL <=> operatorsOfChainIn(params.ensureChain.value, assemblyId) = {})
        /\ (out.afterEntity # MODEL /\ ~ params.ensureChain.defined) => out.displayed = assemblyId
        /\ out.displayed \in {assemblyId, MODEL}

\* a request of the API or the fetch of the model failed
loadFailedOutside ==
    \/ \E i \in 1..Len(requests) : requests[i].state = "rejected"
    \/ \E k \in 1..Len(calls) : calls[k].pc = "threw"

\* C22: when every request of the call and the fetch of the model succeeded,
\* and the resolved assembly is not the deposited model, _loadPdbconnectBase
\* returns, and with ensureEntity given it has fallen back to the deposited
\* model exactly when none of the entity's chains has an operator in the
\* assembly's operatorsPerChain (an assembly the symmetry data does not list,
\* or an entity with no chains, has none); likewise with ensureChain for a
\* single chain; when the entity or chain is present the displayed assembly
\* stays the requested one, and once fallen back to the model it never
\* switches back to an assembly.
C22_FallsBackExactlyWhenAbsent ==
    (loadOfAssembly /\ ~ loadFailedOutside) =>
        (~ instances.result.threw /\ loadFallsBackAsClaimed)

----------------------------------------------------------------------------
(* Properties of PdbeApiClient *)

requestsFor(relativeUrl) == {i \in 1..Len(requests) : requests[i].relativeUrl = relativeUrl}
getsOf(relativeUrl) == {k \in 1..Len(received) : received[k].relativeUrl = relativeUrl}

\* C23: PdbeApiClient.get issues at most one HTTP request per relative URL,
\* for any sequence and interleaving of calls: every call for a URL, made
\* while the request is running or after it has settled, receives the promise
\* of that one request.
C23_OneRequestPerUrl ==
    \A relativeUrl \in RelativeUrls :
        /\ Cardinality(requestsFor(relativeUrl)) <= 1
        /\ \A k \in getsOf(relativeUrl) :
              /\ received[k].promise \in requestsFor(relativeUrl)
              /\ \A j \in getsOf(relativeUrl) : received[j].promise = received[k].promise

\* One URL was asked for three times: by the call that started the request,
\* by a call made while the request was running, and by a call made after
\* it had resolved; the other URL has a request of its own.
C23_Witness ==
    \E relativeUrl \in RelativeUrls :
        /\ \E k \in getsOf(relativeUrl) : received[k].found = "none"
        /\ \E k \in getsOf(relativeUrl) : received[k].found = "pending"
        /\ \E k \in getsOf(relativeUrl) : received[k].found = "resolved"
        /\ \E other \in RelativeUrls \ {relativeUrl} : requestsFor(other) # {}
====
